---- MODULE Spec2Model ----
(***************************************************************************)
(* A model of the seek engine of @xtia/timeline (src/src/internal/         *)
(* timeline.ts, newest snapshot: lines 1-789) together with the            *)
(* createListenable / Emitter.transform subscription machinery             *)
(* (src/unnamed/part_008) and TimelinePoint (src/unnamed/part_004,         *)
(* newest snapshot: lines 166-331).                                        *)
(*                                                                         *)
(* Every public operation (seek, subscribe, unsubscribe, play, pause, a    *)
(* driver tick) is one atomic action: JavaScript is single threaded and    *)
(* each of them runs to completion, handlers included.  The body of an     *)
(* operation is computed on the timeline as a record ("machine"): every    *)
(* function of the source is an operator that returns the record after     *)
(* its own statements and the calls it makes, in order, and Run executes   *)
(* those calls to completion.  A thrown exception is the field err, which  *)
(* unwinds the pending calls up to a catch/finally clause of the source.   *)
(***************************************************************************)
EXTENDS Integers, Sequences, FiniteSets, TLC

\* ------------------------------------------------------------------ bounds
\* Positions on the timeline are the integers 0..MaxPos.
MaxPos == 4
\* Number of point objects the program has created with Timeline.point().
NPoints == 3
\* Number of range objects the program has created with Timeline.range().
NRanges == 2
\* Largest number of entries one listenable's handler array may hold.
MaxSubs == 2
\* Number of nested calls of Timeline.seek the call stack has room for.
MaxStack == 3

Positions == 0 .. MaxPos
PointIds == 1 .. NPoints
RangeIds == 1 .. NRanges

Min(a, b) == IF a < b THEN a ELSE b
Max(a, b) == IF a > b THEN a ELSE b

\* ------------------------------------------------- the program's objects
\* Point object p was created by timeline.point(PointPos(p)).
PointPos(p) == Min(p, MaxPos)
\* Range object r was created by timeline.range(RangeStart(r), RangeDur(r)).
RangeStart(r) == r
RangeDur(r) == r
RangeEnd(r) == RangeStart(r) + RangeDur(r)

\* Derived emitters built with Emitter.transform.  Each owns a listenable
\* (a handler array) and subscribes to its parent when the first handler
\* arrives.
\*   1: point(2).forwardOnly        2: point(2).forwardOnly.tap(cb)
\*   3: range(1).tap(cb)           4: range(2).dedupe()
\*   5: range(0, 0).dedupe(), on the range of duration 0
DerivedIds == {1, 2, 3, 4, 5}
ZeroRange == <<"R", 0>>
DParent(d) == CASE d = 1 -> <<"P", Min(2, NPoints)>>
                [] d = 2 -> <<"D", 1>>
                [] d = 4 -> <<"R", Min(2, NRanges)>>
                [] d = 5 -> ZeroRange
                [] OTHER -> <<"R", 1>>
DKind(d) == CASE d = 1 -> "forwardOnly"
              [] d \in {4, 5} -> "dedupe"
              [] OTHER -> "tap"

PointNodes == {<<"P", p>> : p \in PointIds}
RangeNodes == {<<"R", r>> : r \in RangeIds}
DerivedNodes == {<<"D", d>> : d \in DerivedIds}
\* The emitter range(1).tap(cb) as createTapListener builds it: the array
\* `listeners` and the variable parentUnsubscribe of one
\* createTapListener(cb, onListen) call, onListen being the range's.
TapListenerId == 6
TapListenerNode == <<"D", TapListenerId>>
\* The listenables of the timeline itself: Timeline.progression and the
\* frame events of Timeline.apply.  Neither has onAddFirst or onRemoveLast.
\* The emitter snap() returns has no handler array of its own: its
\* subscribers are handlers on SnapParent.
SnapParent == <<"R", Min(2, NRanges)>>
SnapNode == <<"N", 0>>
ProgressNode == <<"G", 0>>
FrameNode == <<"A", 0>>
OwnNodes == {ProgressNode, FrameNode}
Nodes == PointNodes \cup RangeNodes \cup DerivedNodes \cup {ZeroRange} \cup OwnNodes
            \cup {TapListenerNode}

\* ------------------------------------------------------ user handlers
\* What a user handler does when it is invoked.  Every handler first
\* records the value it was given (the observation the claims are about).
\*   rec     : nothing else
\*   throw   : throws
\*   seek    : calls timeline.seek(ReseekTarget)
\*   sseek   : calls timeline.seek(ReseekTarget, 1), a smooth seek
\*   lp/lr/ld: subscribes a fresh recording handler ("late") to a point, a
\*             range, a derived emitter
\*   once    : the handler of TimelinePoint.promise(): unsubscribes itself,
\*             then resolves the promise with the direction it was given
\*   snap    : the handler snap() subscribes to its parent: hands the
\*             quantised progress to a recording handler
Beh(h) == CASE h \in {"a", "b", "late"} -> "rec"
            [] h = "throw" -> "throw"
            [] h = "seek" -> "seek"
            [] h = "sseek" -> "sseek"
            [] h \in {"lp", "lr", "ld"} -> "listen"
            [] h \in {"p1", "p2"} -> "once"
            [] h = "s1" -> "snap"
            [] OTHER -> "rec"
ReseekTarget == MaxPos
ListenTarget(h) == CASE h = "lp" -> <<"P", NPoints>>
                     [] h = "lr" -> <<"R", NRanges>>
                     [] OTHER -> <<"D", 2>>

UserEntry(h) == [kind |-> "user", h |-> h, d |-> 0, ok |-> FALSE]
FwdEntry(d) == [kind |-> "fwd", h |-> "fwd", d |-> d, ok |-> TRUE]

\* --------------------------------------------------------------- state
VARIABLES
    currentTime,           \* Timeline._currentTime
    endPosition,           \* Timeline._endPosition
    points,                \* Timeline.points: registry, a sequence of point ids
    ranges,                \* Timeline.ranges: registry, a sequence of range ids
    currentSortDirection,  \* Timeline.currentSortDirection: -1, 0, 1
    seeking,               \* Timeline.seeking
    playing,               \* Timeline._pause !== null (isPlaying)
    interval,              \* the timer play() started is still scheduled
    subs,                  \* handler array of every listenable, by node
    psub,                  \* transform's parentUnsubscribe !== null, by derived id
    previous,              \* dedupe's `previous`, by derived id
    heard,                 \* the last value each dedupe was handed by its parent
    snapSteps,             \* steps of the emitter SnapParent.snap(steps) the program holds
    log,                   \* handler invocations of the last operation, in order
    calls,                 \* API calls made by handlers during the last operation
    thrown,                \* the last operation ended by throwing to its caller
    path,                  \* positions the seekDirect calls of the last operation ended at
    endAction,             \* Timeline.endAction: [type, at]
    smoothSeeker,          \* Timeline.smoothSeeker: 0 (null) or an index of seekers
    seekers,               \* the nested timelines created by smooth seeks
    last                   \* the last operation: [op, from, to, ...]

vars == <<currentTime, endPosition, points, ranges, currentSortDirection,
          seeking, playing, interval, subs, psub, previous, heard,
          snapSteps,
          log, calls, thrown, path,
          endAction, smoothSeeker, seekers, last>>

\* The nested timelines that can still act: the one the timeline refers to,
\* and every one whose driver is running.  One that is neither is
\* unreachable and stopped.
Alive(i) == i = smoothSeeker \/ seekers[i].playing
AliveSeekers == SelectSeq([i \in 1 .. Len(seekers) |-> i], Alive)
\* The index of nested timeline i among those that can still act.
AliveIndex(i) == Cardinality({j \in 1 .. i : Alive(j)})

\* The timeline as a value, at the start of an operation: the observation
\* fields start empty, and of the nested timelines those that can still act
\* are left.
Machine ==
    [currentTime |-> currentTime, endPosition |-> endPosition,
     points |-> points, ranges |-> ranges,
     sortDir |-> currentSortDirection, seeking |-> seeking,
     playing |-> playing, interval |-> interval, subs |-> subs, psub |-> psub,
     previous |-> previous, heard |-> heard, snapSteps |-> snapSteps,
     endAction |-> endAction,
     smoothSeeker |-> IF smoothSeeker = 0 THEN 0 ELSE AliveIndex(smoothSeeker),
     seekers |-> [k \in 1 .. Len(AliveSeekers) |-> seekers[AliveSeekers[k]]],
     log |-> <<>>, calls |-> <<>>, path |-> <<>>, err |-> FALSE]

Commit(m) ==
    /\ currentTime' = m.currentTime
    /\ endPosition' = m.endPosition
    /\ points' = m.points
    /\ ranges' = m.ranges
    /\ currentSortDirection' = m.sortDir
    /\ seeking' = m.seeking
    /\ playing' = m.playing
    /\ interval' = m.interval
    /\ subs' = m.subs
    /\ psub' = m.psub
    /\ previous' = m.previous
    /\ heard' = m.heard
    /\ snapSteps' = m.snapSteps
    /\ log' = m.log
    /\ calls' = m.calls
    /\ thrown' = m.err
    /\ path' = m.path
    /\ endAction' = m.endAction
    /\ smoothSeeker' = m.smoothSeeker
    /\ seekers' = m.seekers

Throw(m) == [m EXCEPT !.err = TRUE]

\* --------------------------------------------------- sequence helpers
IndexOf(s, x) ==
    IF \E i \in 1 .. Len(s) : s[i] = x
    THEN CHOOSE i \in 1 .. Len(s) : s[i] = x /\ \A j \in 1 .. (i - 1) : s[j] # x
    ELSE 0

RemoveAt(s, i) == [j \in 1 .. (Len(s) - 1) |-> IF j < i THEN s[j] ELSE s[j + 1]]

\* Array.prototype.splice(indexOf(x), 1): an absent element gives index -1,
\* and splice(-1, 1) removes the last element.
SpliceIndexOf(s, x) ==
    IF Len(s) = 0 THEN s
    ELSE IF IndexOf(s, x) = 0 THEN RemoveAt(s, Len(s))
    ELSE RemoveAt(s, IndexOf(s, x))

\* The comparators handed to Array.prototype.sort by sortEntries.
sortEvents(a, b) == PointPos(a) - PointPos(b)
sortTweens(a, b) == RangeEnd(a) - RangeEnd(b)
sortReverse(posA, posB) == IF posA = posB THEN 1 ELSE posB - posA

Compare(c, a, b) ==
    CASE c = "sortEvents" -> sortEvents(a, b)
      [] c = "sortTweens" -> sortTweens(a, b)
      [] c = "sortReversePoints" -> sortReverse(PointPos(a), PointPos(b))
      [] OTHER -> sortReverse(RangeStart(a), RangeStart(b))

\* Array.prototype.sort is a stable sort: as an insertion sort, an element
\* moves left past every element the comparator puts after it.
RECURSIVE InsertSorted(_, _, _)
InsertSorted(s, x, c) ==
    IF Len(s) = 0 THEN <<x>>
    ELSE IF Compare(c, s[Len(s)], x) > 0
         THEN Append(InsertSorted(SubSeq(s, 1, Len(s) - 1), x, c), s[Len(s)])
         ELSE Append(s, x)

RECURSIVE SortWith(_, _)
SortWith(s, c) ==
    IF Len(s) <= 1 THEN s
    ELSE InsertSorted(SortWith(SubSeq(s, 1, Len(s) - 1), c), s[Len(s)], c)

\* ------------------------------------------------------------- values
\* A PointEvent {direction} and a range's progress (a fraction num/den) are
\* carried in one record shape.
PointEvent(dir) == [dir |-> dir, num |-> 0, den |-> 1]
Fraction(num, den) == [dir |-> 0, num |-> num, den |-> den]
\* null, where a value may be absent.
NoValue == [dir |-> 0, num |-> 0, den |-> 0]

\* utils clamp(value, min, max) = Math.min(Math.max(value, min), max)
clamp(value, lo, hi) == Min(Max(value, lo), hi)

\* clamp((to - position) / duration, 0, 1) for a positive duration, as the
\* fraction with denominator duration.
Progress(to, position, duration) ==
    Fraction(clamp(to - position, 0, duration), duration)

\* ------------------------------------------------ listenables, handlers
EntryIndex(list, kind, h, d) ==
    IF \E i \in 1 .. Len(list) :
          list[i].kind = kind /\ list[i].h = h /\ list[i].d = d
    THEN CHOOSE i \in 1 .. Len(list) :
          /\ list[i].kind = kind /\ list[i].h = h /\ list[i].d = d
          /\ \A j \in 1 .. (i - 1) :
                ~(list[j].kind = kind /\ list[j].h = h /\ list[j].d = d)
    ELSE 0

\* The subscribe call that pushed handler h on node n has returned normally:
\* its caller now holds the unsubscribe function.
MarkOk(m, n, h) ==
    LET list == m.subs[n]
        cand == {i \in 1 .. Len(list) :
                    list[i].kind = "user" /\ list[i].h = h /\ ~list[i].ok}
    IN  IF cand = {} THEN m
        ELSE LET i == CHOOSE x \in cand : \A y \in cand : y <= x
             IN  [m EXCEPT !.subs[n][i].ok = TRUE]

Observe(m, h, n, v) ==
    [m EXCEPT !.log = Append(@, [h |-> h, node |-> n, dir |-> v.dir,
                                 num |-> v.num, den |-> v.den,
                                 t |-> m.currentTime])]

\* ------------------------------------------------------- control flow
\* A call in progress is a stack of frames, the innermost first.  A frame
\* names a function of the code (or the rest of one, after a call it made)
\* with its arguments; running a frame changes the timeline and replaces the
\* frame by the calls the function makes, in order.  An exception (m.err)
\* discards the frames up to the next one that stands for a catch or finally
\* clause.
Ret(m, frames) == [m |-> m, push |-> frames]

FEmit(n, v) == [f |-> "emit", n |-> n, v |-> v]
FEmitFrom(n, v, k, len0) == [f |-> "EmitFrom", n |-> n, v |-> v, k |-> k, len0 |-> len0]
FRunEntry(n, e, v) == [f |-> "RunEntry", n |-> n, e |-> e, v |-> v]
FCallRecord(op, by, n, before) ==
    [f |-> "CallRecord", op |-> op, by |-> by, n |-> n, before |-> before]
FMarkOk(n, h) == [f |-> "MarkOk", n |-> n, h |-> h]
FListen(n, e) == [f |-> "Listen", n |-> n, e |-> e]
FAddListener(n, e) == [f |-> "addListener", n |-> n, e |-> e]
FOnAddFirst(n) == [f |-> "onAddFirst", n |-> n]
FProgression(value) == [f |-> "progression", value |-> value]
FPoint(position) == [f |-> "point", position |-> position]
FRange(start, duration) == [f |-> "range", start |-> start, duration |-> duration]
FSetPrevious(d, v) == [f |-> "previous", d |-> d, v |-> v]
FSetParentUnsubscribe(d, on) == [f |-> "parentUnsubscribe", d |-> d, on |-> on]
FRemoveListener(n, kind, h, d) ==
    [f |-> "removeListener", n |-> n, kind |-> kind, h |-> h, d |-> d]
FOnRemoveLast(n) == [f |-> "onRemoveLast", n |-> n]
FSeekRanges(to) == [f |-> "seekRanges", to |-> to]
FSeekPoints(to) == [f |-> "seekPoints", to |-> to]
FSetCurrentTime(to) == [f |-> "currentTime", to |-> to]
FSeekWrapped(to) == [f |-> "seekWrapped", to |-> to]
FSeekWrappedLoop(remaining, virtualFrom, direction, to) ==
    [f |-> "SeekWrappedLoop", remaining |-> remaining,
     virtualFrom |-> virtualFrom, direction |-> direction, to |-> to]
FSeekDirect(to) == [f |-> "seekDirect", to |-> to]
FSeekDirectFinally(to) == [f |-> "seekDirectFinally", to |-> to]
FSeek(to) == [f |-> "seek", to |-> to]
FSmoothSeek(to, durationMs) == [f |-> "smoothSeek", to |-> to, durationMs |-> durationMs]
FCreateSeeker(to, durationMs) ==
    [f |-> "createSeeker", to |-> to, durationMs |-> durationMs]
FClearSmoothSeeker == [f |-> "clearSmoothSeeker"]
FSeekerEmit(i, x) == [f |-> "SeekerEmit", i |-> i, x |-> x]
FSeekerSeekDirect(i, x) == [f |-> "seekerSeekDirect", i |-> i, x |-> x]
FSeekerAtEnd(i) == [f |-> "seekerAtEnd", i |-> i]
FSeekerSeekRanges(i, x) == [f |-> "seekerSeekRanges", i |-> i, x |-> x]
FSeekerFinally(i, x) == [f |-> "seekerFinally", i |-> i, x |-> x]
FSeekerPause(i) == [f |-> "seekerPause", i |-> i]
FSeekerNext(i, delta) == [f |-> "seekerNext", i |-> i, delta |-> delta]
FRestartLoop(delta) == [f |-> "RestartLoop", delta |-> delta]
FNext(delta) == [f |-> "next", delta |-> delta]
FPause == [f |-> "pause"]
FPlay == [f |-> "play"]
FStartTimer == [f |-> "startTimer"]
FSeekRange(r, durationMs, depth) ==
    [f |-> "seekRange", r |-> r, durationMs |-> durationMs, depth |-> depth]
FPlayRange(r) == [f |-> "playRange", r |-> r]
FSnap(steps) == [f |-> "snap", steps |-> steps]
FEmitCopy(n, v, copy) == [f |-> "EmitCopy", n |-> n, v |-> v, copy |-> copy]
FTapUnsubscribe(h) == [f |-> "tapUnsubscribe", h |-> h]

\* The frames that run also while an exception propagates: the catch and
\* finally clauses of seekDirect, and the observation of a handler's call.
Always(fr) == fr.f \in {"seekDirectFinally", "seekerFinally", "CallRecord"}

\* What a call record compares the state after the call with.
Snapshot(m) ==
    [seeking |-> m.seeking, fired |-> Len(m.log), currentTime |-> m.currentTime,
     lens |-> [x \in Nodes |-> Len(m.subs[x])], seekers |-> Len(m.seekers)]

CallRecord(m, op, by, n, before) ==
    Ret([m EXCEPT !.calls = Append(@,
            [op |-> op, by |-> by, node |-> n,
             seeking |-> before.seeking,
             threw |-> m.err,
             fired |-> Len(m.log) - before.fired,
             moved |-> m.currentTime # before.currentTime,
             added |-> \E x \in Nodes : Len(m.subs[x]) > before.lens[x],
             started |-> Len(m.seekers) > before.seekers])],
        <<>>)

\* Variant of transform whose dedupe keeps one `previous` per delivery: the
\* value is stored before it is forwarded only when it is the first.
transformForgetful(m, d, v) ==
    CASE DKind(d) = "forwardOnly" ->
            Ret(m, IF v.dir = 1 THEN <<FEmit(<<"D", d>>, v)>> ELSE <<>>)
      [] DKind(d) = "dedupe" ->
            Ret(Observe([m EXCEPT !.heard[d] = v], "in", <<"D", d>>, v),
                IF m.previous[d] = NoValue \/ m.previous[d] # v
                THEN <<FEmit(<<"D", d>>, v)>>
                     \o (IF m.previous[d] = NoValue
                         THEN <<FSetPrevious(d, v)>> ELSE <<>>)
                ELSE <<>>)
      [] OTHER ->
            Ret(Observe(m, "cb", <<"D", d>>, v), <<FEmit(<<"D", d>>, v)>>)

\* The function a derived emitter subscribes to its parent:
\* value => handler(value, emit).
\*   forwardOnly: if (value.direction === 1) emit(value)
\*   tap:         cb(value); emit(value)
\*   dedupe:      if (!previous || previous.value !== value)
\*                    { emit(value); previous = { value } }
\* The value a dedupe is handed is recorded as an observation ("in", heard).
transform(m, d, v) ==
    CASE d = TapListenerId ->
            Ret(Observe(m, "cb", <<"D", d>>, v),
                <<FEmitCopy(<<"D", d>>, v, m.subs[<<"D", d>>])>>)
      [] DKind(d) = "forwardOnly" ->
            Ret(m, IF v.dir = 1 THEN <<FEmit(<<"D", d>>, v)>> ELSE <<>>)
      [] DKind(d) = "dedupe" ->
            Ret(Observe([m EXCEPT !.heard[d] = v], "in", <<"D", d>>, v),
                IF m.previous[d] = NoValue \/ m.previous[d] # v
                THEN <<FEmit(<<"D", d>>, v), FSetPrevious(d, v)>>
                ELSE <<>>)
      [] OTHER ->
            Ret(Observe(m, "cb", <<"D", d>>, v), <<FEmit(<<"D", d>>, v)>>)

\* Number.isInteger(steps) && steps > 0, for steps = num / den with den > 0.
PositiveInteger(steps) == steps.num % steps.den = 0 /\ steps.num > 0

\* Math.round(progress * steps) / steps, for progress = v.num / v.den and
\* steps = steps.num / steps.den (den > 0).  Math.round rounds halves up;
\* a division by 0 gives NaN, no exception.
snapped(v, steps) ==
    LET rounded == (2 * v.num * steps.num + v.den * steps.den)
                   \div (2 * v.den * steps.den)
    IN  IF steps.num = 0 THEN NoValue
        ELSE IF steps.num > 0 THEN Fraction(rounded * steps.den, steps.num)
        ELSE Fraction(0 - rounded * steps.den, 0 - steps.num)

\* Variant of snap without the validation of steps.
snapUnchecked(m, steps) == Ret([m EXCEPT !.snapSteps = steps], <<>>)

\* RangeProgression.snap(steps) on the range SnapParent: a RangeError
\* unless steps is a positive integer; otherwise a new emitter, whose
\* listen function subscribes a quantising handler to the parent.
snap(m, steps) ==
    IF ~PositiveInteger(steps) THEN Ret(Throw(m), <<>>)
    ELSE Ret([m EXCEPT !.snapSteps = steps], <<>>)

\* A user handler is invoked with value v by the emitter of node n.
RunUser(m, n, h, v) ==
    LET m1 == Observe(m, h, n, v)
    IN  CASE Beh(h) = "throw" -> Ret(Throw(m1), <<>>)
          [] Beh(h) = "seek" ->
                Ret(m1, <<FSeek(ReseekTarget),
                          FCallRecord("seek", h, n, Snapshot(m1))>>)
          [] Beh(h) = "sseek" ->
                Ret(m1, <<FSmoothSeek(ReseekTarget, 1),
                          FCallRecord("sseek", h, n, Snapshot(m1))>>)
          [] Beh(h) = "listen" ->
                Ret(m1, <<FListen(ListenTarget(h), UserEntry("late")),
                          FMarkOk(ListenTarget(h), "late"),
                          FCallRecord("listen", h, ListenTarget(h), Snapshot(m1))>>)
          [] Beh(h) = "once" ->
                Ret(m1, <<FRemoveListener(n, "user", h, 0)>>)
          [] Beh(h) = "snap" ->
                Ret(Observe(m1, "a", SnapNode, snapped(v, m.snapSteps)), <<>>)
          [] OTHER -> Ret(m1, <<>>)

RunEntry(m, n, e, v) ==
    IF e.kind = "fwd" THEN transform(m, e.d, v) ELSE RunUser(m, n, e.h, v)

\* createListenable's emit: handlers.forEach(h => h.fn(value)).  forEach
\* walks the live array: it visits index k only while k is below the length
\* the array had when the walk began and below its present length.
EmitFrom(m, n, v, k, len0) ==
    IF k > len0 \/ k > Len(m.subs[n]) THEN Ret(m, <<>>)
    ELSE LET r == RunEntry(m, n, m.subs[n][k], v)
         IN  Ret(r.m, r.push \o (IF k + 1 > len0 THEN <<>>
                                 ELSE <<FEmitFrom(n, v, k + 1, len0)>>))

emit(m, n, v) == EmitFrom(m, n, v, 1, Len(m.subs[n]))

\* createTapListener's fan-out, listeners.slice().forEach(fn => fn(value)):
\* the walk is over a copy of the array taken when the value arrives.
EmitCopy(m, n, v, copy) ==
    IF Len(copy) = 0 THEN Ret(m, <<>>)
    ELSE LET r == RunEntry(m, n, Head(copy), v)
         IN  Ret(r.m, r.push \o <<FEmitCopy(n, v, Tail(copy))>>)

\* Timeline.point's addHandler.
pointAddHandler(m, p, e) ==
    IF m.seeking THEN Ret(Throw(m), <<>>)
    ELSE Ret(m, (IF PointPos(p) = m.currentTime
                 THEN <<FEmit(<<"P", p>>, PointEvent(1))>>
                 ELSE <<>>)
                \o <<FAddListener(<<"P", p>>, e)>>)

\* TimelineRange.contains(number): start <= target < end.
contains(r, target) == target >= RangeStart(r) /\ target < RangeEnd(r)

\* Timeline.range's addHandler.
rangeAddHandler(m, r, e) ==
    IF RangeDur(r) = 0 THEN Ret(Throw(m), <<>>)
    ELSE IF m.seeking THEN Ret(Throw(m), <<>>)
    ELSE Ret(m, (IF contains(r, m.currentTime)
                 THEN <<FRunEntry(<<"R", r>>, e,
                                  Progress(m.currentTime, RangeStart(r), RangeDur(r)))>>
                 ELSE <<>>)
                \o <<FAddListener(<<"R", r>>, e)>>)

\* Emitter.onListen of a node: a point's or range's addHandler, or the
\* listen function transform() returned.
Listen(m, n, e) ==
    CASE n[1] = "P" -> pointAddHandler(m, n[2], e)
      [] n[1] = "R" -> rangeAddHandler(m, n[2], e)
      [] OTHER -> Ret(m, <<FAddListener(n, e)>>)

\* createListenable's addListener: push, then onAddFirst when the array has
\* exactly one entry.
addListener(m, n, e) ==
    LET m1 == [m EXCEPT !.subs[n] = Append(@, e)]
    IN  Ret(m1, IF Len(m1.subs[n]) = 1 THEN <<FOnAddFirst(n)>> ELSE <<>>)

\* onAddFirst: a point or range enters the timeline's registry; a derived
\* emitter subscribes its transform to its parent and keeps the parent's
\* unsubscribe function.
onAddFirst(m, n) ==
    CASE n[1] = "P" -> Ret([m EXCEPT !.points = Append(@, n[2])], <<>>)
      [] n[1] = "R" -> Ret([m EXCEPT !.ranges = Append(@, n[2])], <<>>)
      [] n \in OwnNodes -> Ret(m, <<>>)
      [] OTHER -> Ret(m, <<FListen(DParent(n[2]), FwdEntry(n[2])),
                           FSetParentUnsubscribe(n[2], TRUE)>>)

parentUnsubscribe(m, d, on) == Ret([m EXCEPT !.psub[d] = on], <<>>)

\* The unsubscribe function addListener returned: indexOf, throw when absent,
\* splice, then onRemoveLast when the array is empty.
removeListener(m, n, kind, h, d) ==
    LET idx == EntryIndex(m.subs[n], kind, h, d)
    IN  IF idx = 0 THEN Ret(Throw(m), <<>>)
        ELSE LET m1 == [m EXCEPT !.subs[n] = RemoveAt(@, idx)]
             IN  Ret(m1, IF Len(m1.subs[n]) = 0 THEN <<FOnRemoveLast(n)>> ELSE <<>>)

\* The unsubscribe function createTapListener's tapOnListen returned for
\* handler h: indexOf(handler) finds the function itself, splice(idx, 1)
\* runs whatever idx is (idx -1 removes the last listener), and the parent
\* is unsubscribed when the array is empty and parentUnsubscribe is set.
tapUnsubscribe(m, h) ==
    LET list == m.subs[TapListenerNode]
        idx == EntryIndex(list, "user", h, 0)
        m1 == [m EXCEPT !.subs[TapListenerNode] =
                  IF Len(list) = 0 THEN list
                  ELSE IF idx = 0 THEN RemoveAt(list, Len(list))
                  ELSE RemoveAt(list, idx)]
    IN  Ret(m1, IF Len(m1.subs[TapListenerNode]) = 0 /\ m.psub[TapListenerId]
                THEN <<FRemoveListener(DParent(TapListenerId), "fwd", "fwd",
                                       TapListenerId),
                       FSetParentUnsubscribe(TapListenerId, FALSE)>>
                ELSE <<>>)

onRemoveLast(m, n) ==
    CASE n[1] = "P" -> Ret([m EXCEPT !.points = SpliceIndexOf(@, n[2])], <<>>)
      [] n[1] = "R" -> Ret([m EXCEPT !.ranges = SpliceIndexOf(@, n[2])], <<>>)
      [] n \in OwnNodes -> Ret(m, <<>>)
      [] OTHER ->
            IF ~m.psub[n[2]] THEN Ret(Throw(m), <<>>)
            ELSE Ret(m, <<FRemoveListener(DParent(n[2]), "fwd", "fwd", n[2]),
                          FSetParentUnsubscribe(n[2], FALSE)>>)

\* this._progression?.emit(value / this._endPosition), with the end position
\* at the time of the emission.
progression(m, value) ==
    Ret(m, <<FEmit(ProgressNode, Fraction(value, m.endPosition))>>)

\* Variant of Timeline.point that takes the position of every new point as
\* the end position.
pointMovesEnd(m, position) ==
    Ret([m EXCEPT !.endPosition = position],
        <<FEmit(ProgressNode, Fraction(m.currentTime, position))>>)

\* Timeline.point(position), for a point that gets no handler: a position
\* beyond the end position becomes the end position, and the progression
\* emits currentTime / position.
point(m, position) ==
    IF position > m.endPosition
    THEN Ret([m EXCEPT !.endPosition = position],
             <<FEmit(ProgressNode, Fraction(m.currentTime, position))>>)
    ELSE Ret(m, <<>>)

\* Timeline.range(start, duration), for a range that gets no handler: its
\* start point and its end point are created.
range(m, start, duration) ==
    Ret(m, <<FPoint(start), FPoint(start + duration)>>)

\* ------------------------------------------------------------ seeking
\* Variant of overlaps with open ends: a seek that only touches a boundary
\* of the range would not count.
overlapsOpen(r, fromTime, toTime) ==
    fromTime < RangeEnd(r) /\ toTime > RangeStart(r)

\* The overlap test of seekRanges.
overlaps(r, fromTime, toTime) ==
    fromTime <= RangeEnd(r) /\ toTime >= RangeStart(r)

\* Timeline.seekRanges: nothing when `to` is the current time; otherwise
\* every registered range (a copy of the registry, in its order) that the
\* interval between currentTime and `to` touches emits its progress at `to`;
\* then the timeline's progression emits toTime / endPosition.
seekRanges(m, to) ==
    IF m.currentTime = to THEN Ret(m, <<>>)
    ELSE LET fromTime == Min(m.currentTime, to)
             toTime == Max(m.currentTime, to)
             touched == SelectSeq(m.ranges, LAMBDA r : overlaps(r, fromTime, toTime))
         IN  Ret(m, [k \in 1 .. Len(touched) |->
                        FEmit(<<"R", touched[k]>>,
                              Progress(to, RangeStart(touched[k]),
                                       RangeDur(touched[k])))]
                    \o <<FProgression(toTime)>>)

\* Variant of PointsBetween whose backward filter is the mirror image of the
\* forward one: a backward seek would fire on landing, not on departing.
PointsBetweenMirrored(registry, from, to) ==
    LET forward(p) == PointPos(p) > from /\ PointPos(p) <= to
        backward(p) == PointPos(p) < from /\ PointPos(p) >= to
    IN  IF to > from THEN SelectSeq(registry, forward)
        ELSE SelectSeq(registry, backward)

\* The filter of seekPoints.
PointsBetween(registry, from, to) ==
    LET forward(p) == PointPos(p) > from /\ PointPos(p) <= to
        backward(p) == PointPos(p) <= from /\ PointPos(p) > to
    IN  IF to > from THEN SelectSeq(registry, forward)
        ELSE SelectSeq(registry, backward)

\* Variant of seekPoints in which the ranges do not settle at a point's
\* position before the point emits.
seekPointsUnsettled(m, to) ==
    LET from == m.currentTime
        direction == IF to > from THEN 1 ELSE -1
        pointsBetween == PointsBetween(m.points, from, to)
        visit(k) == <<FSetCurrentTime(PointPos(pointsBetween[k])),
                      FEmit(<<"P", pointsBetween[k]>>, PointEvent(direction))>>
        frames[k \in 0 .. Len(pointsBetween)] ==
            IF k = 0 THEN <<>> ELSE frames[k - 1] \o visit(k)
    IN  Ret(m, frames[Len(pointsBetween)])

\* Timeline.seekPoints: the registered points between currentTime and `to`,
\* in registry order; for each, the ranges settle at its position, then
\* currentTime becomes its position, then it emits.
seekPoints(m, to) ==
    LET from == m.currentTime
        direction == IF to > from THEN 1 ELSE -1
        pointsBetween == PointsBetween(m.points, from, to)
        visit(k) == <<FSeekRanges(PointPos(pointsBetween[k])),
                      FSetCurrentTime(PointPos(pointsBetween[k])),
                      FEmit(<<"P", pointsBetween[k]>>, PointEvent(direction))>>
        frames[k \in 0 .. Len(pointsBetween)] ==
            IF k = 0 THEN <<>> ELSE frames[k - 1] \o visit(k)
    IN  Ret(m, frames[Len(pointsBetween)])

\* Variant of the assignment that leaves currentTime as it is.
SetCurrentTimeSkipped(m, to) == Ret(m, <<>>)

\* this._currentTime = p.position (seekPoints), = toPosition (seekWrapped)
SetCurrentTime(m, to) == Ret([m EXCEPT !.currentTime = to], <<>>)

\* Timeline.sortEntries
sortEntries(m, direction) ==
    [m EXCEPT !.sortDir = direction,
              !.points = SortWith(@, IF direction = 1 THEN "sortEvents"
                                     ELSE "sortReversePoints"),
              !.ranges = SortWith(@, IF direction = 1 THEN "sortTweens"
                                     ELSE "sortReverseRanges")]

\* JavaScript's % (the sign of the result is the sign of the dividend).
JsRem(a, b) == IF a >= 0 THEN a % b ELSE 0 - ((0 - a) % b)

getWrappedPosition(pos, wrapAt, loopLen) ==
    JsRem(JsRem(pos - wrapAt, loopLen) + loopLen, loopLen) + wrapAt

Abs(x) == IF x < 0 THEN 0 - x ELSE x

\* Variant of SeekWrappedLoop that walks at most one lap.
SeekWrappedLoopOnce(m, remaining, virtualFrom, direction, toPosition) ==
    LET timelineEnd == m.endPosition
        wrapAt == m.endAction.at
        loopLen == timelineEnd - wrapAt
        virtualTo ==
           IF direction > 0
           THEN IF remaining <= timelineEnd - virtualFrom
                THEN virtualFrom + remaining ELSE timelineEnd
           ELSE IF remaining <= virtualFrom - wrapAt
                THEN virtualFrom - remaining ELSE wrapAt
    IN  IF remaining <= 0
        THEN Ret(m, <<FSeekRanges(getWrappedPosition(toPosition, wrapAt, loopLen)),
                      FSetCurrentTime(toPosition)>>)
        ELSE Ret([m EXCEPT !.currentTime = virtualFrom],
                 <<FSeekPoints(virtualTo),
                   FSeekWrappedLoop(0, virtualTo, direction, toPosition)>>)

\* Timeline.seekWrapped: one lap of the while loop, then the rest of the
\* function (the ranges settle at the wrapped target, currentTime becomes
\* the target).
SeekWrappedLoop(m, remaining, virtualFrom, direction, toPosition) ==
    LET timelineEnd == m.endPosition
        wrapAt == m.endAction.at
        loopLen == timelineEnd - wrapAt
        virtualTo ==
           IF direction > 0
           THEN IF remaining <= timelineEnd - virtualFrom
                THEN virtualFrom + remaining ELSE timelineEnd
           ELSE IF remaining <= virtualFrom - wrapAt
                THEN virtualFrom - remaining ELSE wrapAt
        left == remaining - Abs(virtualTo - virtualFrom)
    IN  IF remaining <= 0
        THEN Ret(m, <<FSeekRanges(getWrappedPosition(toPosition, wrapAt, loopLen)),
                      FSetCurrentTime(toPosition)>>)
        ELSE Ret([m EXCEPT !.currentTime = virtualFrom],
                 <<FSeekPoints(virtualTo),
                   FSeekWrappedLoop(left,
                                    IF left > 0
                                    THEN (IF direction > 0 THEN wrapAt ELSE timelineEnd)
                                    ELSE virtualTo,
                                    direction, toPosition)>>)

\* Variant of seekWrapped that seeks the points and ranges to the wrapped
\* target as an ordinary seek would.
seekWrappedToRemainder(m, toPosition) ==
    LET wrapAt == m.endAction.at
        loopLen == m.endPosition - wrapAt
        wrapped == getWrappedPosition(toPosition, wrapAt, loopLen)
    IN  Ret(m, <<FSeekPoints(wrapped), FSeekRanges(wrapped),
                 FSetCurrentTime(toPosition)>>)

\* Timeline.seekWrapped up to the while loop.
seekWrapped(m, toPosition) ==
    LET fromPosition == m.currentTime
        wrapAt == m.endAction.at
        loopLen == m.endPosition - wrapAt
        realDelta == toPosition - fromPosition
    IN  Ret(m, <<FSeekWrappedLoop(Abs(realDelta),
                                  getWrappedPosition(fromPosition, wrapAt, loopLen),
                                  IF realDelta >= 0 THEN 1 ELSE -1,
                                  toPosition)>>)

\* Variant of pause that also stops the nested timeline of a smooth seek.
pauseStopsSmoothSeek(m) ==
    IF ~m.playing THEN m
    ELSE IF m.smoothSeeker = 0
    THEN [m EXCEPT !.playing = FALSE, !.interval = FALSE]
    ELSE [m EXCEPT !.playing = FALSE, !.interval = FALSE,
                   !.seekers[m.smoothSeeker].playing = FALSE]

\* Timeline.pause
pause(m) ==
    IF ~m.playing THEN m ELSE [m EXCEPT !.playing = FALSE, !.interval = FALSE]

\* Timeline.seekDirect up to the end of its try block: nothing when the
\* target is the current time; otherwise the registries are sorted for the
\* direction, `seeking` is set, and the points and ranges are sought.
seekDirect(m, toPosition) ==
    LET fromPosition == m.currentTime
        direction == IF toPosition > fromPosition THEN 1 ELSE -1
        m1 == IF direction # m.sortDir THEN sortEntries(m, direction) ELSE m
        m2 == [m1 EXCEPT !.seeking = TRUE]
    IN  IF toPosition = fromPosition THEN Ret(m, <<>>)
        ELSE IF m.endAction.type = "wrap"
                /\ (fromPosition > m.endPosition \/ toPosition > m.endPosition)
        THEN Ret(m2, <<FSeekWrapped(toPosition), FSeekDirectFinally(toPosition)>>)
        ELSE LET r == seekPoints(m2, toPosition)
             IN  Ret(r.m, r.push \o <<FSeekRanges(toPosition),
                                      FSeekDirectFinally(toPosition)>>)

\* Variant of seekDirectFinally without the finally clause (as in the
\* earlier seekDirect, which cleared `seeking` only after a normal return).
seekDirectNoFinally(m, toPosition) ==
    IF m.err THEN Ret(pause(m), <<>>)
    ELSE Ret([m EXCEPT !.seeking = FALSE,
                       !.currentTime = toPosition,
                       !.path = Append(@, toPosition)], <<>>)

\* The end of Timeline.seekDirect: catch pauses and rethrows, finally clears
\* `seeking`, and only a seek that did not throw moves currentTime to
\* toPosition.
seekDirectFinally(m, toPosition) ==
    IF m.err THEN Ret([pause(m) EXCEPT !.seeking = FALSE], <<>>)
    ELSE Ret([m EXCEPT !.seeking = FALSE,
                       !.currentTime = toPosition,
                       !.path = Append(@, toPosition)], <<>>)

\* --------------------------------------------------------- smooth seek
\* A smooth seek creates a nested autoplaying Timeline ("seeker") holding
\* range(0, dur).ease(undefined).tween(from, to).apply(v => parent.seekDirect(v))
\* and a promise() on its end point.  The record keeps what that nested
\* timeline's behaviour depends on: its currentTime (time), whether its
\* driver runs (playing) and whether the promise handler has fired
\* (resolved; the handler unsubscribes itself, which removes the end point
\* from the seeker's registry), with the parent's currentTime at that
\* moment (resolvedAt; -1 before).
NewSeeker(from, to, dur) ==
    [from |-> from, to |-> to, dur |-> dur, time |-> 0,
     playing |-> TRUE, resolved |-> FALSE, resolvedAt |-> -1]

\* createTween(from, to)(progress) for numbers, at progress num/den.
blendNumbers(from, to, num, den) == from + ((to - from) * num) \div den

\* The seeker's range handler chain at seeker position x: the parent seeks
\* directly to the tweened position.
SeekerEmit(m, i, x) ==
    LET sk == m.seekers[i]
    IN  Ret(m, <<FSeekDirect(blendNumbers(sk.from, sk.to,
                                          clamp(x, 0, sk.dur), sk.dur))>>)

\* Variant of seekerSeekDirect whose seekPoints emits the end point before
\* it seeks the ranges to the point's position.
seekerSeekDirectResolvesFirst(m, i, x) ==
    LET sk == m.seekers[i]
        crossesEnd == ~sk.resolved /\ sk.time < sk.dur /\ sk.dur <= x
    IN  IF x = sk.time THEN Ret(m, <<>>)
        ELSE Ret(m, (IF crossesEnd
                     THEN <<FSeekerAtEnd(i), FSeekerEmit(i, sk.dur)>>
                     ELSE <<>>)
                    \o <<FSeekerSeekRanges(i, x), FSeekerFinally(i, x)>>)

\* seekDirect of seeker i (a forward seek to x): seekPoints fires the end
\* point when the promise is pending and x reaches it (the range settles at
\* the end first), then seekRanges(x); a throw pauses the seeker and leaves
\* its currentTime where the throw happened.
seekerSeekDirect(m, i, x) ==
    LET sk == m.seekers[i]
        crossesEnd == ~sk.resolved /\ sk.time < sk.dur /\ sk.dur <= x
    IN  IF x = sk.time THEN Ret(m, <<>>)
        ELSE Ret(m, (IF crossesEnd
                     THEN <<FSeekerEmit(i, sk.dur), FSeekerAtEnd(i)>>
                     ELSE <<>>)
                    \o <<FSeekerSeekRanges(i, x), FSeekerFinally(i, x)>>)

\* The seeker's end point is reached: currentTime is its position and the
\* promise handler resolves and unsubscribes.
seekerAtEnd(m, i) ==
    Ret([m EXCEPT !.seekers[i].time = m.seekers[i].dur,
                  !.seekers[i].resolved = TRUE,
                  !.seekers[i].resolvedAt = m.currentTime], <<>>)

\* seekRanges(x) of seeker i.
seekerSeekRanges(m, i, x) ==
    Ret(m, IF m.seekers[i].time = x THEN <<>> ELSE <<FSeekerEmit(i, x)>>)

\* The end of the seeker's seekDirect.
seekerFinally(m, i, x) ==
    IF m.err THEN Ret([m EXCEPT !.seekers[i].playing = FALSE], <<>>)
    ELSE Ret([m EXCEPT !.seekers[i].time = x], <<>>)

seekerPause(m, i) == Ret([m EXCEPT !.seekers[i].playing = FALSE], <<>>)

clearSmoothSeeker(m) == Ret([m EXCEPT !.smoothSeeker = 0], <<>>)

\* Variant of interrupt that only cancels the nested timeline: no final
\* seek to its end.
interruptCancelOnly(m) ==
    Ret([m EXCEPT !.seekers[m.smoothSeeker].playing = FALSE, !.smoothSeeker = 0],
        <<>>)

\* Variant of interrupt without the return to the interrupted position (as
\* in the earlier seek, which completed the nested timeline and went on from
\* its target).
interruptNoReturn(m) ==
    LET i == m.smoothSeeker
    IN  Ret([m EXCEPT !.seekers[i].playing = FALSE],
            <<FSeekerSeekDirect(i, m.seekers[i].dur), FClearSmoothSeeker>>)

\* Variant of interrupt that leaves the driver of the nested timeline
\* running.
interruptLeavesDriver(m) ==
    LET i == m.smoothSeeker
        interruptPosition == m.currentTime
    IN  Ret(m, <<FSeekerSeekDirect(i, m.seekers[i].dur), FClearSmoothSeeker,
                 FSeekDirect(interruptPosition)>>)

\* The interruption block of Timeline.seek (smoothSeeker !== null): the
\* nested timeline is paused and sought to its end, the reference is
\* dropped, and the timeline jumps back to where it was interrupted.
interrupt(m) ==
    LET i == m.smoothSeeker
        interruptPosition == m.currentTime
    IN  Ret([m EXCEPT !.seekers[i].playing = FALSE],
            <<FSeekerSeekDirect(i, m.seekers[i].dur), FClearSmoothSeeker,
              FSeekDirect(interruptPosition)>>)

\* Timeline.seek(to): the instantaneous seek, seekDirect and then
\* this._frameEvents?.emit().
seek(m, toPosition) ==
    IF m.seeking THEN Ret(Throw(m), <<>>)
    ELSE IF m.smoothSeeker # 0
         THEN Ret(interrupt(m).m,
                  interrupt(m).push
                  \o <<FSeekDirect(toPosition), FEmit(FrameNode, NoValue)>>)
         ELSE LET r == seekDirect(m, toPosition)
              IN  Ret(r.m, r.push \o <<FEmit(FrameNode, NoValue)>>)

\* Variant of smoothSeek without the re-entrancy check.
smoothSeekUnguarded(m, toPosition, durationMs) ==
    IF m.smoothSeeker # 0
    THEN Ret(interrupt(m).m,
             interrupt(m).push \o <<FCreateSeeker(toPosition, durationMs)>>)
    ELSE Ret(m, <<FCreateSeeker(toPosition, durationMs)>>)

\* Timeline.seek(to, durationMs) with durationMs > 0: the smooth seek.
smoothSeek(m, toPosition, durationMs) ==
    IF m.seeking THEN Ret(Throw(m), <<>>)
    ELSE IF m.smoothSeeker # 0
         THEN Ret(interrupt(m).m,
                  interrupt(m).push \o <<FCreateSeeker(toPosition, durationMs)>>)
         ELSE Ret(m, <<FCreateSeeker(toPosition, durationMs)>>)

\* The rest of the smooth seek: the nested timeline is created and
\* referenced, tweening from the present position.  The new range
\* subscriber's catch-up emission (progress 0) seeks the parent to where it
\* already is.
createSeeker(m, toPosition, durationMs) ==
    Ret([m EXCEPT !.seekers = Append(@, NewSeeker(m.currentTime, toPosition,
                                                  durationMs)),
                  !.smoothSeeker = Len(m.seekers) + 1],
        <<FSeekDirect(blendNumbers(m.currentTime, toPosition, 0, durationMs))>>)

\* Timeline.next(delta) of seeker i (endAction "pause", end = dur): the
\* driver's tick.
seekerNext(m, i, delta) ==
    LET sk == m.seekers[i]
    IN  IF sk.time + delta <= sk.dur
        THEN Ret(m, <<FSeekerSeekDirect(i, sk.time + delta)>>)
        ELSE Ret(m, <<FSeekerSeekDirect(i, sk.dur), FSeekerPause(i)>>)

\* Variant of RestartLoop that moves the playhead back to the anchor
\* without seeking.
RestartLoopJump(m, delta) ==
    LET distanceToEnd == m.endPosition - m.currentTime
    IN  IF delta <= 0 THEN Ret(m, <<>>)
        ELSE IF delta < distanceToEnd
        THEN Ret(m, <<FSeek(m.currentTime + delta)>>)
        ELSE Ret(m, <<FSeek(m.endPosition), FSetCurrentTime(m.endAction.at),
                      FRestartLoop(delta - distanceToEnd)>>)

\* Variant of RestartLoop that takes a position beyond the end for the end:
\* the distance to the end is never negative.
RestartLoopFromEnd(m, delta) ==
    LET distanceToEnd == Max(m.endPosition - m.currentTime, 0)
    IN  IF delta <= 0 THEN Ret(m, <<>>)
        ELSE IF delta < distanceToEnd
        THEN Ret(m, <<FSeek(m.currentTime + delta)>>)
        ELSE Ret(m, <<FSeek(m.endPosition), FSeek(m.endAction.at),
                      FRestartLoop(delta - distanceToEnd)>>)

\* Variant of RestartLoop whose way back to the anchor fires the points
\* but leaves the ranges alone.
RestartLoopPointsOnly(m, delta) ==
    LET distanceToEnd == m.endPosition - m.currentTime
    IN  IF delta <= 0 THEN Ret(m, <<>>)
        ELSE IF delta < distanceToEnd
        THEN Ret(m, <<FSeek(m.currentTime + delta)>>)
        ELSE Ret(m, <<FSeek(m.endPosition), FSeekPoints(m.endAction.at),
                      FSetCurrentTime(m.endAction.at),
                      FRestartLoop(delta - distanceToEnd)>>)

\* Timeline.next(delta): the while loop of the "restart" end action.
RestartLoop(m, delta) ==
    LET distanceToEnd == m.endPosition - m.currentTime
    IN  IF delta <= 0 THEN Ret(m, <<>>)
        ELSE IF delta < distanceToEnd
        THEN Ret(m, <<FSeek(m.currentTime + delta)>>)
        ELSE Ret(m, <<FSeek(m.endPosition), FSeek(m.endAction.at),
                      FRestartLoop(delta - distanceToEnd)>>)

\* Variant of next whose "pause" end action seeks to the end without
\* pausing.
nextKeepsPlaying(m, delta) ==
    IF m.currentTime + delta <= m.endPosition
    THEN Ret(m, <<FSeek(m.currentTime + delta)>>)
    ELSE CASE m.endAction.type = "restart" ->
                IF m.endPosition - m.endAction.at <= 0
                THEN Ret(m, <<FSeek(Min(m.currentTime + delta, m.endPosition))>>)
                ELSE Ret(m, <<FRestartLoop(delta)>>)
           [] m.endAction.type = "pause" -> Ret(m, <<FSeek(m.endPosition)>>)
           [] OTHER -> Ret(m, <<FSeek(m.currentTime + delta)>>)

\* Variant of next that moves the playhead with seekDirect, past the
\* interruption block of seek.
nextSeeksDirect(m, delta) ==
    IF m.currentTime + delta <= m.endPosition
    THEN Ret(m, <<FSeekDirect(m.currentTime + delta)>>)
    ELSE CASE m.endAction.type = "restart" ->
                IF m.endPosition - m.endAction.at <= 0
                THEN Ret(m, <<FSeek(Min(m.currentTime + delta, m.endPosition))>>)
                ELSE Ret(m, <<FRestartLoop(delta)>>)
           [] m.endAction.type = "pause" ->
                Ret(m, <<FSeekDirect(m.endPosition), FPause>>)
           [] OTHER -> Ret(m, <<FSeekDirect(m.currentTime + delta)>>)

\* Timeline.next(delta): the play() driver's tick.
next(m, delta) ==
    IF m.currentTime + delta <= m.endPosition
    THEN Ret(m, <<FSeek(m.currentTime + delta)>>)
    ELSE CASE m.endAction.type = "restart" ->
                IF m.endPosition - m.endAction.at <= 0
                THEN Ret(m, <<FSeek(Min(m.currentTime + delta, m.endPosition))>>)
                ELSE Ret(m, <<FRestartLoop(delta)>>)
           [] m.endAction.type = "pause" ->
                Ret(m, <<FSeek(m.endPosition), FPause>>)
           [] OTHER -> Ret(m, <<FSeek(m.currentTime + delta)>>)

\* Timeline.play(): the running timer is cleared, a smooth seek in progress
\* is completed at once (without returning to the present position), and a
\* new timer is started.
play(m) ==
    LET i == m.smoothSeeker
        m1 == [m EXCEPT !.interval = FALSE]
    IN  IF i = 0 THEN Ret(m1, <<FStartTimer>>)
        ELSE Ret([m1 EXCEPT !.seekers[i].playing = FALSE],
                 <<FSeekerSeekDirect(i, m1.seekers[i].dur), FClearSmoothSeeker,
                   FStartTimer>>)

\* Timeline.seek(range, durationMs), the branch for a TimelineRange:
\* this.seek(to.start), then this.seek(to, duration, easer) with the same
\* range, which enters the branch again.  depth counts the calls of seek
\* that are on the stack; a call the stack has no room for throws
\* (RangeError).
seekRange(m, r, durationMs, depth) ==
    IF depth >= MaxStack THEN Ret(Throw(m), <<>>)
    ELSE Ret(m, <<FSeek(RangeStart(r)), FSeekRange(r, durationMs, depth + 1)>>)

\* Timeline.play(range), timeScale 1: the running timer is cleared, a
\* smooth seek in progress is completed at once, then this.seek(arg.start)
\* and this.seek(arg.end, arg.duration).
playRange(m, r) ==
    LET i == m.smoothSeeker
        m1 == [m EXCEPT !.interval = FALSE]
        rest == <<FSeek(RangeStart(r)), FSmoothSeek(RangeEnd(r), RangeDur(r))>>
    IN  IF i = 0 THEN Ret(m1, rest)
        ELSE Ret([m1 EXCEPT !.seekers[i].playing = FALSE],
                 <<FSeekerSeekDirect(i, m1.seekers[i].dur), FClearSmoothSeeker>>
                 \o rest)

\* Timeline.playWithInterval
playWithInterval(m) == Ret([m EXCEPT !.playing = TRUE, !.interval = TRUE], <<>>)

\* ---------------------------------------------------------- execution
Step(m, fr) ==
    CASE fr.f = "emit" -> emit(m, fr.n, fr.v)
      [] fr.f = "EmitFrom" -> EmitFrom(m, fr.n, fr.v, fr.k, fr.len0)
      [] fr.f = "RunEntry" -> RunEntry(m, fr.n, fr.e, fr.v)
      [] fr.f = "CallRecord" -> CallRecord(m, fr.op, fr.by, fr.n, fr.before)
      [] fr.f = "MarkOk" -> Ret(MarkOk(m, fr.n, fr.h), <<>>)
      [] fr.f = "Listen" -> Listen(m, fr.n, fr.e)
      [] fr.f = "addListener" -> addListener(m, fr.n, fr.e)
      [] fr.f = "onAddFirst" -> onAddFirst(m, fr.n)
      [] fr.f = "previous" ->
            Ret([m EXCEPT !.previous[fr.d] = fr.v], <<>>)
      [] fr.f = "parentUnsubscribe" -> parentUnsubscribe(m, fr.d, fr.on)
      [] fr.f = "removeListener" -> removeListener(m, fr.n, fr.kind, fr.h, fr.d)
      [] fr.f = "onRemoveLast" -> onRemoveLast(m, fr.n)
      [] fr.f = "seekRanges" -> seekRanges(m, fr.to)
      [] fr.f = "seekPoints" -> seekPoints(m, fr.to)
      [] fr.f = "currentTime" -> SetCurrentTime(m, fr.to)
      [] fr.f = "seekWrapped" -> seekWrapped(m, fr.to)
      [] fr.f = "SeekWrappedLoop" ->
            SeekWrappedLoop(m, fr.remaining, fr.virtualFrom, fr.direction, fr.to)
      [] fr.f = "seekDirect" -> seekDirect(m, fr.to)
      [] fr.f = "seekDirectFinally" -> seekDirectFinally(m, fr.to)
      [] fr.f = "seek" -> seek(m, fr.to)
      [] fr.f = "smoothSeek" -> smoothSeek(m, fr.to, fr.durationMs)
      [] fr.f = "createSeeker" -> createSeeker(m, fr.to, fr.durationMs)
      [] fr.f = "clearSmoothSeeker" -> clearSmoothSeeker(m)
      [] fr.f = "SeekerEmit" -> SeekerEmit(m, fr.i, fr.x)
      [] fr.f = "seekerSeekDirect" -> seekerSeekDirect(m, fr.i, fr.x)
      [] fr.f = "seekerAtEnd" -> seekerAtEnd(m, fr.i)
      [] fr.f = "seekerSeekRanges" -> seekerSeekRanges(m, fr.i, fr.x)
      [] fr.f = "seekerFinally" -> seekerFinally(m, fr.i, fr.x)
      [] fr.f = "seekerPause" -> seekerPause(m, fr.i)
      [] fr.f = "seekerNext" -> seekerNext(m, fr.i, fr.delta)
      [] fr.f = "RestartLoop" -> RestartLoop(m, fr.delta)
      [] fr.f = "next" -> next(m, fr.delta)
      [] fr.f = "pause" -> Ret(pause(m), <<>>)
      [] fr.f = "progression" -> progression(m, fr.value)
      [] fr.f = "point" -> point(m, fr.position)
      [] fr.f = "range" -> range(m, fr.start, fr.duration)
      [] fr.f = "play" -> play(m)
      [] fr.f = "seekRange" -> seekRange(m, fr.r, fr.durationMs, fr.depth)
      [] fr.f = "playRange" -> playRange(m, fr.r)
      [] fr.f = "snap" -> snap(m, fr.steps)
      [] fr.f = "EmitCopy" -> EmitCopy(m, fr.n, fr.v, fr.copy)
      [] fr.f = "tapUnsubscribe" -> tapUnsubscribe(m, fr.h)
      [] OTHER -> playWithInterval(m)

\* Runs a stack of frames to completion.  While an exception is in flight
\* only the catch/finally frames run; the others are unwound.
RECURSIVE Run(_, _)
Run(m, stack) ==
    IF Len(stack) = 0 THEN m
    ELSE LET fr == Head(stack)
             r == IF m.err /\ ~Always(fr) THEN Ret(m, <<>>) ELSE Step(m, fr)
         IN  Run(r.m, r.push \o Tail(stack))

\* ------------------------------------------------------------ actions
\* Every handler array stays within MaxSubs entries.
WithinBounds(m) == \A n \in Nodes : Len(m.subs[n]) <= MaxSubs

HasUser(list, h) == \E i \in 1 .. Len(list) : list[i].kind = "user" /\ list[i].h = h
HoldsUnsubscribe(list, h) ==
    \E i \in 1 .. Len(list) : list[i].kind = "user" /\ list[i].h = h /\ list[i].ok

Op(op, to, n, h) ==
    [op |-> op, from |-> currentTime, to |-> to, node |-> n, h |-> h,
     interrupted |-> smoothSeeker, wasPlaying |-> playing,
     active |-> smoothSeeker # 0 /\ ~seekers[smoothSeeker].resolved,
     target |-> IF smoothSeeker # 0 THEN seekers[smoothSeeker].to ELSE 0]

NoNode == <<"-", 0>>

\* timeline.seek(to)
DoSeek(to) ==
    LET m == Run(Machine, <<FSeek(to)>>)
    IN  /\ WithinBounds(m)
        /\ Commit(m)
        /\ last' = Op("seek", to, NoNode, "-")

\* emitter.apply(h) on the emitter of node n, by the program (outside any
\* handler).  A handler function is subscribed to one emitter at most once
\* at a time.
DoSubscribe(n, h) ==
    LET m1 == Run(Machine, <<FListen(n, UserEntry(h)), FMarkOk(n, h)>>)
    IN  /\ ~HasUser(subs[n], h)
        /\ WithinBounds(m1)
        /\ Commit(m1)
        /\ last' = Op("subscribe", currentTime, n, h)

\* Calling the unsubscribe function a subscription returned.
DoUnsubscribe(n, h) ==
    LET m == Run(Machine, <<FRemoveListener(n, "user", h, 0)>>)
    IN  /\ HoldsUnsubscribe(subs[n], h)
        /\ Commit(m)
        /\ last' = Op("unsubscribe", currentTime, n, h)

\* timeline.point(position)
DoPoint(position) ==
    LET m == Run(Machine, <<FPoint(position)>>)
    IN  /\ Commit(m)
        /\ last' = Op("point", position, NoNode, "-")

\* timeline.range(start, duration)
DoRange(start, duration) ==
    LET m == Run(Machine, <<FRange(start, duration)>>)
    IN  /\ Commit(m)
        /\ last' = Op("range", start, <<"duration", duration>>, "-")

\* timeline.seek(to, durationMs)
DoSmoothSeek(to, durationMs) ==
    LET m == Run(Machine, <<FSmoothSeek(to, durationMs)>>)
    IN  /\ WithinBounds(m)
        /\ Commit(m)
        /\ last' = Op("sseek", to, NoNode, "-")

\* One firing of the timer of nested timeline i: next(delta).  The elapsed
\* times are those at which the tween yields a whole position.
DoSeekerTick(i, delta) ==
    LET sk == seekers[i]
        x == Min(sk.time + delta, sk.dur)
        m == Run(Machine, <<FSeekerNext(AliveIndex(i), delta)>>)
    IN  /\ sk.playing
        /\ ((sk.to - sk.from) * x) % sk.dur = 0
        /\ Commit(m)
        /\ last' = Op("stick", currentTime, <<"S", i>>, "-")

\* timeline.seek(range, durationMs), on range object r
DoSeekRange(r, durationMs) ==
    LET m == Run(Machine, <<FSeekRange(r, durationMs, 1)>>)
    IN  /\ WithinBounds(m)
        /\ Commit(m)
        /\ last' = Op("rseek", durationMs, <<"R", r>>, "-")

\* timeline.play(range), on range object r
DoPlayRange(r) ==
    LET m == Run(Machine, <<FPlayRange(r)>>)
    IN  /\ WithinBounds(m)
        /\ Commit(m)
        /\ last' = Op("rplay", RangeDur(r), <<"R", r>>, "-")

\* SnapParent.snap(steps); the program keeps the emitter it gets, and asks
\* for a new one only when the one it holds has no subscriber.
DoSnap(steps) ==
    LET m == Run(Machine, <<FSnap(steps)>>)
    IN  /\ PositiveInteger(steps) => ~HasUser(subs[SnapParent], "s1")
        /\ Commit(m)
        /\ last' = Op("snap", steps.num, <<"den", steps.den>>, "-")

\* emitter.apply(a) on the emitter snap() returned: its listen function
\* subscribes the quantising handler to the parent.
DoSubscribeSnap ==
    /\ snapSteps # NoValue
    /\ DoSubscribe(SnapParent, "s1")

\* timeline.play()
DoPlay ==
    LET m == Run(Machine, <<FPlay>>)
    IN  /\ Commit(m)
        /\ last' = Op("play", currentTime, NoNode, "-")

\* timeline.pause()
DoPause ==
    LET m == pause(Machine)
    IN  /\ playing
        /\ Commit(m)
        /\ last' = Op("pause", currentTime, NoNode, "-")

\* One firing of the timer play() started: next(delta).
DoTick(delta) ==
    LET m == Run(Machine, <<FNext(delta)>>)
    IN  /\ interval
        /\ WithinBounds(m)
        /\ Commit(m)
        /\ last' = Op("tick", currentTime + delta, NoNode, "-")

\* The end position after the program created its points and ranges.
RECURSIVE MaxOf(_)
MaxOf(S) == IF S = {} THEN 0
            ELSE LET x == CHOOSE y \in S : TRUE
                 IN  Max(x, MaxOf(S \ {x}))
EndOfObjects == MaxOf({PointPos(p) : p \in PointIds}
                      \cup {RangeEnd(r) : r \in RangeIds})

InitWith(action) ==
    /\ currentTime = 0
    /\ endPosition = EndOfObjects
    /\ points = <<>>
    /\ ranges = <<>>
    /\ currentSortDirection = 0
    /\ seeking = FALSE
    /\ playing = FALSE
    /\ interval = FALSE
    /\ subs = [n \in Nodes |-> <<>>]
    /\ psub = [d \in DerivedIds \cup {TapListenerId} |-> FALSE]
    /\ previous = [d \in DerivedIds |-> NoValue]
    /\ heard = [d \in DerivedIds |-> NoValue]
    /\ snapSteps = NoValue
    /\ log = <<>>
    /\ calls = <<>>
    /\ thrown = FALSE
    /\ path = <<>>
    /\ endAction = [type |-> action, at |-> 0]
    /\ smoothSeeker = 0
    /\ seekers = <<>>
    /\ last = [op |-> "init", from |-> 0, to |-> 0, node |-> NoNode, h |-> "-",
               interrupted |-> 0, wasPlaying |-> FALSE, active |-> FALSE,
               target |-> 0]

Init == InitWith("pause")

\* Points and ranges with recording handlers, subscribed and unsubscribed in
\* any order between instantaneous seeks.
Next ==
    \/ \E to \in Positions : DoSeek(to)
    \/ \E n \in PointNodes \cup RangeNodes, h \in {"a"} : DoSubscribe(n, h)
    \/ \E n \in PointNodes \cup RangeNodes, h \in {"a"} : DoUnsubscribe(n, h)

Spec == Init /\ [][Next]_vars

\* The handlers that call back into the timeline or throw are subscribed to
\* the first point and the first range, one of them at a time.
Specials == {"seek", "sseek", "throw", "lp", "lr", "ld"}
SpecialNodes == {<<"P", 1>>, <<"R", 1>>}
SecondPoint == <<"P", Min(2, NPoints)>>
NoSpecial ==
    \A n \in SpecialNodes : \A i \in 1 .. Len(subs[n]) : subs[n][i].h \notin Specials
Deltas == {1, MaxPos}

\* Smooth seeks, their timers, and instantaneous seeks that interrupt them,
\* over recording handlers on the points.
SmoothDurations(to) == {Abs(to - currentTime)} \ {0}
SmoothTargets == {0, MaxPos}

NextSmooth ==
    \/ \E to \in Positions : DoSeek(to)
    \/ \E to \in SmoothTargets : \E d \in SmoothDurations(to) : DoSmoothSeek(to, d)
    \/ \E i \in 1 .. Len(seekers), delta \in Deltas : DoSeekerTick(i, delta)
    \/ \E n \in PointNodes : DoSubscribe(n, "a")
    \/ \E n \in PointNodes : DoUnsubscribe(n, "a")

SpecSmooth == Init /\ [][NextSmooth]_vars

\* Handlers that seek, instantaneously or smoothly, when they are invoked.
NextReentrant ==
    \/ \E to \in Positions : DoSeek(to)
    \/ \E n \in SpecialNodes, h \in {"seek", "sseek"} : NoSpecial /\ DoSubscribe(n, h)
    \/ \E n \in SpecialNodes, h \in {"seek", "sseek"} : DoUnsubscribe(n, h)
    \/ DoSubscribe(SecondPoint, "a")
    \/ DoUnsubscribe(SecondPoint, "a")

SpecReentrant == Init /\ [][NextReentrant]_vars

\* Handlers that subscribe a new handler to a point, a range or a derived
\* emitter when they are invoked; the derived emitter may already have a
\* subscriber.
NextListen ==
    \/ \E to \in Positions : DoSeek(to)
    \/ \E n \in SpecialNodes, h \in {"lp", "lr", "ld"} : NoSpecial /\ DoSubscribe(n, h)
    \/ \E n \in SpecialNodes, h \in {"lp", "lr", "ld"} : DoUnsubscribe(n, h)
    \/ DoSubscribe(<<"D", 2>>, "a")
    \/ DoUnsubscribe(<<"D", 2>>, "a")

SpecListen == Init /\ [][NextListen]_vars

\* Recording handlers subscribed and unsubscribed on a point, on a range and
\* on derived emitters of them, and a throwing handler on a derived emitter
\* of the range.
RegistryNodes == {SecondPoint, <<"R", 1>>, <<"D", 1>>, <<"D", 2>>, <<"D", 3>>}

NextRegistry ==
    \/ \E to \in Positions : DoSeek(to)
    \/ \E n \in RegistryNodes : DoSubscribe(n, "a")
    \/ \E n \in RegistryNodes : DoUnsubscribe(n, "a")
    \/ DoSubscribe(<<"D", 3>>, "throw")
    \/ DoUnsubscribe(<<"D", 3>>, "throw")

SpecRegistry == Init /\ [][NextRegistry]_vars

\* A handler that throws, on a timeline that is sought, played and paused.
NextThrow ==
    \/ \E to \in Positions : DoSeek(to)
    \/ \E n \in SpecialNodes : NoSpecial /\ DoSubscribe(n, "throw")
    \/ \E n \in SpecialNodes : DoUnsubscribe(n, "throw")
    \/ DoSubscribe(SecondPoint, "a")
    \/ DoUnsubscribe(SecondPoint, "a")
    \/ DoPlay
    \/ DoPause
    \/ \E delta \in Deltas : DoTick(delta)

SpecThrow == Init /\ [][NextThrow]_vars

\* ============================================================== claims
\* Observations of the last operation.
Hits(n, h) == {k \in 1 .. Len(log) : log[k].node = n /\ log[k].h = h}
UserHandlers(n) ==
    {subs[n][i].h : i \in {j \in 1 .. Len(subs[n]) : subs[n][j].kind = "user"}}
PointHits == {k \in 1 .. Len(log) : log[k].node \in PointNodes}
LastOf(S) == CHOOSE k \in S : \A j \in S : j <= k
CompletedSeek == last.op = "seek" /\ ~thrown

\* C1: an instantaneous seek from `from` to `to` on a non-wrapping timeline
\* invokes every handler of a subscribed point exactly once with direction
\* +1 when to > from and from < position <= to, exactly once with direction
\* -1 when to < from and to < position <= from, and not at all otherwise
\* (in particular never when to = from).
C1_FiringRule ==
    CompletedSeek =>
        \A p \in PointIds : \A h \in UserHandlers(<<"P", p>>) :
            LET hits == Hits(<<"P", p>>, h)
                pos == PointPos(p)
            IN  IF last.to > last.from /\ last.from < pos /\ pos <= last.to
                THEN Cardinality(hits) = 1 /\ \A k \in hits : log[k].dir = 1
                ELSE IF last.to < last.from /\ last.to < pos /\ pos <= last.from
                THEN Cardinality(hits) = 1 /\ \A k \in hits : log[k].dir = -1
                ELSE hits = {}

\* A backward seek landed exactly on a subscribed point, which did not fire,
\* while a point it departed from or passed fired with direction -1.
C1_Witness ==
    /\ CompletedSeek
    /\ last.to < last.from
    /\ \E p \in PointIds : /\ PointPos(p) = last.to
                           /\ UserHandlers(<<"P", p>>) # {}
                           /\ Hits(<<"P", p>>, "a") = {}
    /\ \E k \in PointHits : log[k].dir = -1

\* C2: the point handlers invoked by one seek run in position order along
\* the direction of travel: ascending positions for a forward seek,
\* descending positions for a backward seek.
C2_PositionOrder ==
    CompletedSeek =>
        \A i, j \in PointHits :
            i < j =>
                IF last.to > last.from
                THEN PointPos(log[i].node[2]) <= PointPos(log[j].node[2])
                ELSE PointPos(log[i].node[2]) >= PointPos(log[j].node[2])

\* Range r's interval meets the closed interval between positions x and y.
Touches(r, x, y) == Min(x, y) <= RangeEnd(r) /\ Max(x, y) >= RangeStart(r)
SameValue(entry, v) == entry.num = v.num /\ entry.den = v.den

\* C3: when a handler of a crossed point p runs, currentTime is p's
\* position, and every subscribed range whose interval meets the trajectory
\* from the seek's start to p's position has already received, in this
\* seek, an emission, the latest of them being its progress at p's position.
C3_RangesSettleFirst ==
    CompletedSeek =>
        \A k \in PointHits :
            LET pos == PointPos(log[k].node[2])
            IN  /\ log[k].t = pos
                /\ \A r \in RangeIds : \A h \in UserHandlers(<<"R", r>>) :
                      Touches(r, last.from, pos) =>
                          LET before == {j \in Hits(<<"R", r>>, h) : j < k}
                          IN  /\ before # {}
                              /\ SameValue(log[LastOf(before)],
                                           Progress(pos, RangeStart(r), RangeDur(r)))

\* C4: in an instantaneous seek with from # to on a non-wrapping timeline a
\* handler of a subscribed range is invoked iff the closed interval between
\* from and to meets [start, start + duration], and the last value it
\* receives is clamp((to - start) / duration, 0, 1).
C4_RangeEmission ==
    (CompletedSeek /\ last.from # last.to) =>
        \A r \in RangeIds : \A h \in UserHandlers(<<"R", r>>) :
            LET hits == Hits(<<"R", r>>, h)
            IN  /\ (hits # {}) <=> Touches(r, last.from, last.to)
                /\ hits # {} =>
                      SameValue(log[LastOf(hits)],
                                Progress(last.to, RangeStart(r), RangeDur(r)))

\* A seek ended exactly on the start of one subscribed range, which emitted
\* 0, and passed points on the way, while another subscribed range was not
\* touched and stayed silent.
C4_Witness ==
    /\ CompletedSeek
    /\ PointHits # {}
    /\ \E r \in RangeIds :
          /\ last.to = RangeStart(r)
          /\ last.from < last.to
          /\ Hits(<<"R", r>>, "a") # {}
          /\ log[LastOf(Hits(<<"R", r>>, "a"))].num = 0
    /\ \E r \in RangeIds :
          /\ "a" \in UserHandlers(<<"R", r>>)
          /\ Hits(<<"R", r>>, "a") = {}

\* C5: a call to seek, instantaneous or smooth, that a handler makes while
\* the timeline is dispatching a seek (isSeeking true) throws, invokes no
\* handler, leaves currentTime where it was and starts no smooth seek.
C5_ReentrantSeekThrows ==
    \A k \in 1 .. Len(calls) :
        (calls[k].op \in {"seek", "sseek"} /\ calls[k].seeking) =>
            /\ calls[k].threw
            /\ calls[k].fired = 0
            /\ ~calls[k].moved
            /\ ~calls[k].started

\* A range handler, invoked by a seek that did not start at the handler's
\* target, called a smooth seek while the timeline was seeking.
C5_Witness ==
    /\ last.op = "seek"
    /\ last.from # ReseekTarget
    /\ \E k \in 1 .. Len(calls) :
          /\ calls[k].op = "sseek"
          /\ calls[k].node = <<"R", 1>>
          /\ calls[k].seeking

\* C6: subscribing a new handler while the timeline is dispatching a seek
\* (isSeeking true) throws and adds no handler, whether the subscription is
\* made on a point, on a range or on a derived emitter, with or without
\* subscribers of its own.
C6_ListenWhileSeekingThrows ==
    \A k \in 1 .. Len(calls) :
        (calls[k].op = "listen" /\ calls[k].seeking) =>
            calls[k].threw /\ ~calls[k].added

HandlerThrew == \E k \in 1 .. Len(log) : log[k].h = "throw"

\* C7: when a point or range handler throws during a seek or a timer tick,
\* the call throws to its caller, the timeline is not playing and not
\* seeking afterwards, and a following seek and a following subscription are
\* accepted.
C7_ThrowPausesAndClearsGuard ==
    (last.op \in {"seek", "tick"} /\ HandlerThrew) =>
        /\ thrown
        /\ ~playing
        /\ ~seeking
        /\ ~Run(Machine, <<FSeek(currentTime)>>).err
        /\ ~Run(Machine, <<FListen(SecondPoint, UserEntry("late"))>>).err

\* A tick of a playing timeline reached a range whose handler threw.
C7_Witness ==
    /\ last.op = "tick"
    /\ last.wasPlaying
    /\ thrown
    /\ \E k \in 1 .. Len(log) : log[k].h = "throw" /\ log[k].node = <<"R", 1>>

\* A seek from position f to position t crosses point p.
Crosses(p, f, t) ==
    IF t > f THEN f < PointPos(p) /\ PointPos(p) <= t
    ELSE t < f /\ PointPos(p) <= f /\ PointPos(p) > t
Toward(f, t) == IF t > f THEN 1 ELSE -1
\* The last operation was a seek, with or without a duration, made while the
\* promise of a smooth seek was pending.
Interrupting(ops) == last.op \in ops /\ last.active /\ ~thrown

\* C8: a seek, with or without a duration, made while a smooth seek A with
\* target T_A is in progress stops A's nested timeline, resolves A's
\* promise and first of all seeks the timeline directly to T_A, firing the
\* subscribed points crossed on the way there.
C8_InterruptCompletes ==
    Interrupting({"seek", "sseek"}) =>
        /\ ~seekers[1].playing
        /\ seekers[1].resolved
        /\ last.target # last.from =>
              (Len(path) >= 1 /\ path[1] = last.target)
        /\ \A p \in PointIds : \A h \in UserHandlers(<<"P", p>>) :
              Crosses(p, last.from, last.target) =>
                  \E k \in Hits(<<"P", p>>, h) :
                      /\ log[k].dir = Toward(last.from, last.target)
                      /\ log[k].t = PointPos(p)
                      /\ \A j \in Hits(<<"P", p>>, h) : k <= j
        /\ last.op = "sseek" =>
              (smoothSeeker = 2 /\ seekers[2].playing /\ ~seekers[2].resolved)

\* An instantaneous seek interrupted a smooth seek away from its target and
\* from the seek's own destination, and points fired.
C8_Witness ==
    /\ Interrupting({"seek"})
    /\ last.target # last.from
    /\ last.target # last.to
    /\ PointHits # {}

\* C9 as stated: when smooth seek B interrupts smooth seek A, B's tween
\* starts from T_A, the timeline is at T_A when the call returns, and the
\* interruption fires no point in the direction away from T_A.
C9_TweenFromTarget ==
    Interrupting({"sseek"}) =>
        /\ seekers[smoothSeeker].from = last.target
        /\ currentTime = last.target
        /\ \A k \in PointHits : log[k].dir = Toward(last.from, last.target)

\* C9 amended: when smooth seek B interrupts smooth seek A, the timeline
\* seeks directly to T_A and then directly back to the position it had when
\* it was interrupted; B's tween starts from that position, every
\* subscribed point between the two positions fires once on the way to T_A
\* and once more, in the opposite direction, on the way back, and each tick
\* of B's timer puts the timeline at the tween's value.
C9_TweenFromInterruptPosition ==
    /\ Interrupting({"sseek"}) =>
          /\ seekers[smoothSeeker].from = last.from
          /\ seekers[smoothSeeker].to = last.to
          /\ currentTime = last.from
          /\ last.target # last.from => path = <<last.target, last.from>>
          /\ \A p \in PointIds : \A h \in UserHandlers(<<"P", p>>) :
                LET hits == Hits(<<"P", p>>, h)
                IN  IF Crosses(p, last.from, last.target)
                    THEN /\ Cardinality(hits) = 2
                         /\ \A k \in hits :
                               log[k].dir = IF k = LastOf(hits)
                                            THEN Toward(last.target, last.from)
                                            ELSE Toward(last.from, last.target)
                    ELSE hits = {}
    /\ (last.op = "stick" /\ ~thrown) =>
          currentTime = blendNumbers(seekers[smoothSeeker].from,
                                     seekers[smoothSeeker].to,
                                     seekers[smoothSeeker].time,
                                     seekers[smoothSeeker].dur)

\* A smooth seek interrupted another one short of its target; a point
\* between the two positions fired forward and then backward.
C9_Witness ==
    /\ Interrupting({"sseek"})
    /\ last.from < last.target
    /\ \E k \in PointHits : log[k].dir = -1

\* Node n is node x or a derived emitter made, directly or through other
\* derived emitters, from x.
RECURSIVE DerivedFrom(_, _)
DerivedFrom(n, x) ==
    n = x \/ (n[1] = "D" /\ DerivedFrom(DParent(n[2]), x))
\* A handler is subscribed to x or to a derived emitter of x: its subscribe
\* call returned and its unsubscribe function has not been called.
Subscribed(x) ==
    \E n \in Nodes : DerivedFrom(n, x) /\ \E h \in UserHandlers(n) : HoldsUnsubscribe(subs[n], h)
Occurrences(s, x) == Cardinality({i \in 1 .. Len(s) : s[i] = x})

\* C10: between operations, a point or range is in the timeline's registry
\* exactly once when a handler is subscribed to it, directly or through
\* derived emitters, and not at all otherwise.
C10_RegistryMatchesSubscribers ==
    /\ \A p \in PointIds :
          Occurrences(points, p) = IF Subscribed(<<"P", p>>) THEN 1 ELSE 0
    /\ \A r \in RangeIds :
          Occurrences(ranges, r) = IF Subscribed(<<"R", r>>) THEN 1 ELSE 0

\* ------------------------------------------------------------- C11..C20
\* Two recording handlers subscribed to and unsubscribed from the ranges,
\* between instantaneous seeks.
NextCatchUp ==
    \/ \E to \in Positions : DoSeek(to)
    \/ \E n \in RangeNodes, h \in {"a", "b"} : DoSubscribe(n, h)
    \/ \E n \in RangeNodes, h \in {"a", "b"} : DoUnsubscribe(n, h)

SpecCatchUp == Init /\ [][NextCatchUp]_vars

\* The last operation subscribed a handler to a range.
SubscribedToRange ==
    last.op = "subscribe" /\ last.node \in RangeNodes /\ ~thrown
\* The subscribe call invoked exactly the new handler, once, with the
\* clamped progress of the range at the current time.
CaughtUp ==
    LET r == last.node[2]
    IN  /\ Len(log) = 1
        /\ log[1].h = last.h
        /\ log[1].node = last.node
        /\ log[1].num = clamp(last.from - RangeStart(r), 0, RangeDur(r))
        /\ log[1].den = RangeDur(r)

\* C11 as stated: a handler subscribed to a range while
\* start <= currentTime <= start + duration (both boundaries included) is
\* invoked during the subscribe call, exactly once, with the clamped
\* progress; outside that interval the subscribe call invokes no handler.
C11_CatchUpClosed ==
    SubscribedToRange =>
        LET r == last.node[2]
        IN  IF RangeStart(r) <= last.from /\ last.from <= RangeEnd(r)
            THEN CaughtUp ELSE log = <<>>

\* What the subscribe call does instead: it catches up while
\* start <= currentTime < start + duration (TimelineRange.contains excludes
\* the end); at the end position and outside the range it invokes no
\* handler.
CatchUpHalfOpen ==
    SubscribedToRange =>
        LET r == last.node[2]
        IN  IF RangeStart(r) <= last.from /\ last.from < RangeEnd(r)
            THEN CaughtUp ELSE log = <<>>

\* A second handler was subscribed to a range inside it, past its start:
\* it alone was invoked, with a progress above 0.
CatchUpInside ==
    /\ SubscribedToRange
    /\ Len(subs[last.node]) = 2
    /\ Len(log) = 1
    /\ log[1].num > 0

\* A timeline with endAction "wrap" (wrap anchor 0): recording handlers on
\* the points, and seeks to positions up to MaxLaps laps beyond the end.
MaxLaps == 2

\* The end position after the program created only its points: the last
\* point is at the end of the timeline.
EndOfPoints == MaxOf({PointPos(p) : p \in PointIds})
WrapPositions == 0 .. (MaxLaps * EndOfPoints + 1)

\* new Timeline(false, action) or new Timeline(false, {restartAt / wrapAt:
\* at}), followed by the creation of the points.
InitPoints(action, at) ==
    /\ currentTime = 0
    /\ endPosition = EndOfPoints
    /\ points = <<>>
    /\ ranges = <<>>
    /\ currentSortDirection = 0
    /\ seeking = FALSE
    /\ playing = FALSE
    /\ interval = FALSE
    /\ subs = [n \in Nodes |-> <<>>]
    /\ psub = [d \in DerivedIds \cup {TapListenerId} |-> FALSE]
    /\ previous = [d \in DerivedIds |-> NoValue]
    /\ heard = [d \in DerivedIds |-> NoValue]
    /\ snapSteps = NoValue
    /\ log = <<>>
    /\ calls = <<>>
    /\ thrown = FALSE
    /\ path = <<>>
    /\ endAction = [type |-> action, at |-> at]
    /\ smoothSeeker = 0
    /\ seekers = <<>>
    /\ last = [op |-> "init", from |-> 0, to |-> 0, node |-> NoNode, h |-> "-",
               interrupted |-> 0, wasPlaying |-> FALSE, active |-> FALSE,
               target |-> 0]

InitWrap == InitPoints("wrap", 0)

NextWrap ==
    \/ \E to \in WrapPositions : DoSeek(to)
    \/ \E n \in PointNodes : DoSubscribe(n, "a")
    \/ \E n \in PointNodes : DoUnsubscribe(n, "a")

SpecWrap == InitWrap /\ [][NextWrap]_vars

\* C12: on a timeline with endAction wrap, after a seek to a position
\* beyond the end position currentTime is that raw position, and every
\* point handler the seek invoked saw the position of its own point as
\* currentTime.
C12_WrapCurrentTime ==
    (CompletedSeek /\ last.to > endPosition) =>
        /\ currentTime = last.to
        /\ \A k \in PointHits : log[k].t = PointPos(log[k].node[2])

\* A seek went beyond the end and fired a point whose position differs from
\* both ends of the seek.
C12_Witness ==
    /\ CompletedSeek
    /\ last.to > endPosition
    /\ currentTime = last.to
    /\ \E k \in PointHits : log[k].t # last.to /\ log[k].t # last.from

\* How often the last operation invoked handler "a" of point p with
\* direction dir.
Fired(p, dir) == Cardinality({k \in Hits(<<"P", p>>, "a") : log[k].dir = dir})
\* Point p has the recording handler.
Listened(p) == HasUser(subs[<<"P", p>>], "a")
\* The points a seek to position `to` would invoke, made where the last
\* operation started.
FiredBySeekFrom(from, to) ==
    LET m == Run([Machine EXCEPT !.currentTime = from], <<FSeek(to)>>)
    IN  {m.log[k].node : k \in 1 .. Len(m.log)}

\* C13 as stated: with endAction wrap, wrap anchor 0 and end position E, a
\* seek to E + x (0 <= x < E) invokes the same points as a seek to x made
\* from the same starting state, and currentTime is E + x afterwards.
C13_SameAsSeekToRemainder ==
    (CompletedSeek /\ endPosition <= last.to /\ last.to < 2 * endPosition) =>
        /\ currentTime = last.to
        /\ {log[k].node : k \in 1 .. Len(log)}
              = FiredBySeekFrom(last.from, last.to - endPosition)

\* C13 amended: with endAction wrap, wrap anchor 0 and end position E, a
\* seek from a position c <= E to E + x (0 <= x < E) invokes every
\* subscribed point of (c, E] and then every subscribed point of (0, x],
\* each time with direction +1 (a point in both intervals is invoked
\* twice), and currentTime is E + x afterwards.
C13_RestOfLapThenRemainder ==
    (CompletedSeek /\ last.from <= endPosition
     /\ endPosition <= last.to /\ last.to < 2 * endPosition) =>
        /\ currentTime = last.to
        /\ \A p \in PointIds :
              Listened(p) =>
                 /\ Fired(p, 1) = (IF last.from < PointPos(p) THEN 1 ELSE 0)
                                  + (IF PointPos(p) <= last.to - endPosition
                                     THEN 1 ELSE 0)
                 /\ Fired(p, -1) = 0

\* A seek from within the timeline to a position in the second lap invoked
\* a point twice and another point once.
C13_Witness ==
    /\ CompletedSeek
    /\ last.from <= endPosition
    /\ endPosition < last.to /\ last.to < 2 * endPosition
    /\ \E p, q \in PointIds : Fired(p, 1) = 2 /\ Fired(q, 1) = 1

\* C14: with endAction wrap, wrap anchor 0 and end position E, a seek
\* between positions a and b of which at least one exceeds E invokes each
\* subscribed point p (0 < p <= E) once for every n >= 0 with p + n*E in
\* (a, b] (forward, direction +1) or in (b, a] (backward, direction -1),
\* and no other times.
C14_WrapFiresPerLap ==
    (CompletedSeek /\ (last.from > endPosition \/ last.to > endPosition)) =>
        \A p \in PointIds :
            Listened(p) =>
                LET lo == Min(last.from, last.to)
                    hi == Max(last.from, last.to)
                    dir == IF last.to > last.from THEN 1 ELSE -1
                    laps == {n \in 0 .. MaxLaps :
                                /\ lo < PointPos(p) + n * endPosition
                                /\ PointPos(p) + n * endPosition <= hi}
                IN  /\ Fired(p, dir) = Cardinality(laps)
                    /\ Fired(p, 0 - dir) = 0

\* A backward seek that started beyond the end crossed a lap boundary and
\* invoked a point twice.
C14_Witness ==
    /\ CompletedSeek
    /\ last.from > endPosition
    /\ last.to < last.from
    /\ \E p \in PointIds : Fired(p, -1) = 2

\* Timelines with endAction "restart" (anchor 0 or 1) or "pause", played,
\* paused and sought, with recording handlers on the points.  The timer of
\* play() fires with elapsed times up to MaxLaps laps and more.
TickDeltas == 1 .. (MaxLaps * EndOfPoints + 1)

InitEndAction ==
    \/ InitPoints("pause", 0)
    \/ \E at \in {0, 1} : InitPoints("restart", at)

NextEndAction ==
    \/ \E to \in Positions : DoSeek(to)
    \/ \E n \in PointNodes : DoSubscribe(n, "a")
    \/ \E n \in PointNodes : DoUnsubscribe(n, "a")
    \/ DoPlay
    \/ DoPause
    \/ \E delta \in TickDeltas : DoTick(delta)

SpecEndAction == InitEndAction /\ [][NextEndAction]_vars

\* The last operation was a timer tick, on a restart timeline with a loop
\* of positive length, that advanced the playhead from the restart anchor
\* by more than one loop length.
LoopLength == endPosition - endAction.at
Overshoot ==
    /\ last.op = "tick" /\ ~thrown
    /\ endAction.type = "restart"
    /\ LoopLength > 0
    /\ last.from = endAction.at
    /\ last.to - last.from > LoopLength

\* C15 as stated: such an advance by delta invokes the point at endPosition
\* floor(delta / L) times and leaves currentTime at anchor + (delta mod L).
C15_RestartFiresPerLoop ==
    Overshoot =>
        /\ currentTime = endAction.at + ((last.to - last.from) % LoopLength)
        /\ \A p \in PointIds :
              (Listened(p) /\ PointPos(p) = endPosition) =>
                 Fired(p, 1) + Fired(p, -1) = (last.to - last.from) \div LoopLength

\* C15 amended: such an advance by delta invokes the point at endPosition
\* floor(delta / L) times with direction +1 (the seeks to endPosition) and
\* as many times with direction -1 (the seeks back to the restart anchor),
\* and leaves currentTime at anchor + (delta mod L).
C15_RestartFiresBothWays ==
    Overshoot =>
        /\ currentTime = endAction.at + ((last.to - last.from) % LoopLength)
        /\ \A p \in PointIds :
              (Listened(p) /\ PointPos(p) = endPosition) =>
                 /\ Fired(p, 1) = (last.to - last.from) \div LoopLength
                 /\ Fired(p, -1) = (last.to - last.from) \div LoopLength

\* An advance of two loop lengths and more from a non-zero anchor invoked
\* the point at the end twice forward, and settled past the anchor.
C15_Witness ==
    /\ Overshoot
    /\ endAction.at > 0
    /\ currentTime > endAction.at
    /\ \E p \in PointIds : PointPos(p) = endPosition /\ Fired(p, 1) = 2

\* The last operation was a timer tick on a timeline with endAction pause.
PauseTick == last.op = "tick" /\ ~thrown /\ endAction.type = "pause"
\* The last operation invoked exactly the subscribed points of (from, to],
\* once each and forward.
FiredForwardTo(to) ==
    \A p \in PointIds :
        Listened(p) =>
            /\ Fired(p, 1) = (IF last.from < PointPos(p) /\ PointPos(p) <= to
                              THEN 1 ELSE 0)
            /\ Fired(p, -1) = 0

\* C16: on a playing timeline with endAction pause, an advance by delta
\* with currentTime + delta > endPosition seeks to endPosition (invoking the
\* points up to and including endPosition) and stops playing; an advance
\* with currentTime + delta <= endPosition seeks to currentTime + delta and
\* leaves the timeline playing.
C16_PauseAtEnd ==
    PauseTick =>
        IF last.to > endPosition
        THEN currentTime = endPosition /\ ~playing /\ FiredForwardTo(endPosition)
        ELSE currentTime = last.to /\ playing /\ FiredForwardTo(last.to)

\* A tick overshot the end from within the timeline: the point at the end
\* was invoked and the timeline stopped there.
C16_Witness ==
    /\ PauseTick
    /\ last.from < endPosition
    /\ last.to > endPosition
    /\ \E p \in PointIds : PointPos(p) = endPosition /\ Fired(p, 1) = 1
    /\ ~playing

\* A played and paused timeline with smooth seeks: the timer of play(), the
\* timers of the nested timelines, instantaneous seeks, and recording
\* handlers on the points.
NextPauseSmooth ==
    \/ \E to \in Positions : DoSeek(to)
    \/ \E to \in SmoothTargets : \E d \in SmoothDurations(to) : DoSmoothSeek(to, d)
    \/ \E i \in 1 .. Len(seekers), delta \in Deltas : DoSeekerTick(i, delta)
    \/ \E n \in PointNodes : DoSubscribe(n, "a")
    \/ \E n \in PointNodes : DoUnsubscribe(n, "a")
    \/ DoPlay
    \/ DoPause
    \/ \E delta \in Deltas : DoTick(delta)

\* The nested timeline of the smooth seek in progress has its timer armed.
SeekerPlaying == smoothSeeker # 0 /\ seekers[smoothSeeker].playing

\* An armed timer of a nested timeline eventually fires.
SpecPauseSmooth ==
    /\ Init
    /\ [][NextPauseSmooth]_vars
    /\ ([]<>(~SeekerPlaying) \/ []<><<last'.op = "stick">>_vars)

\* pause() was called while a smooth seek was in flight.
PausedInFlight == last.op = "pause" /\ last.active
\* The smooth seek in flight has reached its target and resolved its
\* promise, by its own ticks or because a later seek or play() completed it.
SmoothSeekSettled ==
    \/ /\ smoothSeeker # 0
       /\ seekers[smoothSeeker].resolved
       /\ currentTime = seekers[smoothSeeker].to
    \/ /\ last.op \in {"seek", "sseek", "play", "tick"}
       /\ last.active
       /\ seekers[1].resolved
       /\ last.target # last.from => (Len(path) >= 1 /\ path[1] = last.target)
\* What a pause() step leaves as it was.
PauseFrame ==
    /\ currentTime' = currentTime
    /\ points' = points
    /\ ranges' = ranges
    /\ subs' = subs
    /\ (smoothSeeker' = 0) = (smoothSeeker = 0)
    /\ smoothSeeker # 0 => seekers'[smoothSeeker'] = seekers[smoothSeeker]

\* C17: pause() only stops the play() driver: it leaves currentTime, the
\* registries and a smooth seek in progress unchanged, and a smooth seek that
\* is in flight when pause() is called is still driven by its own ticks, so
\* that it reaches its target and resolves its promise.
C17_PauseLeavesSmoothSeek ==
    /\ [][last'.op = "pause" => PauseFrame /\ ~playing' /\ ~interval']_vars
    /\ (PausedInFlight ~> SmoothSeekSettled)

\* pause() was called on a playing timeline during a smooth seek that had
\* moved the playhead part of the way.
C17_Witness ==
    /\ PausedInFlight
    /\ last.wasPlaying
    /\ currentTime # seekers[smoothSeeker].from
    /\ currentTime # seekers[smoothSeeker].to

\* A deduped range with two recording handlers and its parent with one, on a timeline
\* that wraps at its end.  The later points have handlers too: a seek
\* seeks the ranges at every subscribed point it visits, so that a range
\* emits several times during one seek.
Deduped == <<"D", 4>>
DedupePoints == {<<"P", p>> : p \in PointIds \ {1}}
NextDedupe ==
    \/ \E to \in 0 .. (EndOfObjects + 1) : DoSeek(to)
    \/ \E h \in {"a", "b"} : DoSubscribe(Deduped, h)
    \/ \E h \in {"a", "b"} : DoUnsubscribe(Deduped, h)
    \/ \E n \in DedupePoints \cup {DParent(4)} : DoSubscribe(n, "a")
    \/ \E n \in DedupePoints \cup {DParent(4)} : DoUnsubscribe(n, "a")

SpecDedupe == InitWith("wrap") /\ [][NextDedupe]_vars

Value(e) == [dir |-> e.dir, num |-> e.num, den |-> e.den]
Values(s) == [i \in 1 .. Len(s) |-> Value(s[i])]
\* The values the parent handed to the deduped emitter during the operation
\* that left observations lg, in order.
ParentValues(lg) ==
    LET T(e) == e.h = "in" /\ e.node = Deduped
    IN  Values(SelectSeq(lg, T))
\* The values handler h received from the deduped emitter, in order.
ReceivedValues(lg, h) ==
    LET T(e) == e.h = h /\ e.node = Deduped
    IN  Values(SelectSeq(lg, T))
\* s without the elements that equal their predecessor.
RECURSIVE WithoutRepeats(_)
WithoutRepeats(s) ==
    IF Len(s) <= 1 THEN s
    ELSE LET front == WithoutRepeats(SubSeq(s, 1, Len(s) - 1))
         IN  IF s[Len(s)] = s[Len(s) - 1] THEN front ELSE Append(front, s[Len(s)])
\* What is left of the values ins, that follow the value before, when
\* consecutive duplicates are removed.
Continued(before, ins) ==
    IF before = NoValue THEN WithoutRepeats(ins)
    ELSE Tail(WithoutRepeats(<<before>> \o ins))
NoRepeats(s) == \A i \in 1 .. (Len(s) - 1) : s[i] # s[i + 1]

TapIds == {d \in DerivedIds : DKind(d) = "tap"}
NextTap ==
    \/ \E to \in Positions : DoSeek(to)
    \/ \E d \in TapIds, h \in {"a", "b"} : DoSubscribe(<<"D", d>>, h)
    \/ \E d \in TapIds, h \in {"a", "b"} : DoUnsubscribe(<<"D", d>>, h)
    \/ \E d \in TapIds : DoSubscribe(DParent(d), "a")
    \/ \E d \in TapIds : DoUnsubscribe(DParent(d), "a")
    \/ DoSubscribe(<<"D", 3>>, "throw")
    \/ DoUnsubscribe(<<"D", 3>>, "throw")

SpecTap == Init /\ [][NextTap]_vars

\* The handlers whose subscription to node n returned to its caller.
Subscribers(n) ==
    {subs[n][i].h : i \in {j \in 1 .. Len(subs[n]) :
                              subs[n][j].kind = "user" /\ subs[n][j].ok}}
\* The number of subscriptions derived emitter d holds on its parent.
ParentSubscriptions(d) ==
    Cardinality({i \in 1 .. Len(subs[DParent(d)]) :
                    subs[DParent(d)][i].kind = "fwd" /\ subs[DParent(d)][i].d = d})
Invocations(h, n) == {k \in 1 .. Len(log) : log[k].h = h /\ log[k].node = n}
\* During a seek, cb ran once for each value the parent emitted, and each
\* subscriber received the value once, after cb and before the next cb.
TappedOnce(d) ==
    LET n == <<"D", d>>
    IN  /\ "a" \in Subscribers(DParent(d)) =>
              Cardinality(Invocations("cb", n)) =
                  Cardinality(Invocations("a", DParent(d)))
        /\ \A k \in Invocations("cb", n) : \A h \in Subscribers(n) :
              \E j \in Invocations(h, n) :
                  /\ j > k
                  /\ j <= k + Cardinality(Subscribers(n))
                  /\ log[j].num = log[k].num /\ log[j].dir = log[k].dir
        /\ \A h \in Subscribers(n) :
              Cardinality(Invocations(h, n)) = Cardinality(Invocations("cb", n))

\* C19: for an emitter made by tap(cb), cb runs exactly once per parent
\* emission whatever the number of subscribers, every subscriber receives
\* each emission once after cb, cb never runs while the tapped emitter has
\* no subscriber, and the tapped emitter holds exactly one subscription on
\* its parent while it has a subscriber and none when it has none.
C19_TapLaw ==
    \A d \in TapIds :
        /\ Subscribers(<<"D", d>>) # {} => ParentSubscriptions(d) = 1
        /\ subs[<<"D", d>>] = <<>> =>
              (ParentSubscriptions(d) = 0 /\ Invocations("cb", <<"D", d>>) = {})
        /\ (last.op = "seek" /\ ~thrown /\ Subscribers(<<"D", d>>) # {}) =>
              TappedOnce(d)

\* Two subscribers on the tapped range, and a seek made the range emit.
TappedTwice ==
    /\ Subscribers(<<"D", 3>>) = {"a", "b"}
    /\ "a" \in Subscribers(<<"R", 1>>)
    /\ last.op = "seek"
    /\ Invocations("cb", <<"D", 3>>) # {}

\* Promises and a recording handler on one Point object, on a timeline that
\* is sought.  A promise is made by point.promise(); nobody but its own
\* handler holds its unsubscribe function.
Promises == {"p1", "p2"}
NextPromise ==
    \/ \E to \in Positions : DoSeek(to)
    \/ \E h \in Promises : DoSubscribe(SecondPoint, h)
    \/ \E n \in PointNodes : DoSubscribe(n, "a")
    \/ \E n \in PointNodes : DoUnsubscribe(n, "a")

SpecPromise == Init /\ [][NextPromise]_vars

\* Point n fired during the operation that left observations lg.
FiredIn(lg, n) == \E k \in 1 .. Len(lg) : lg[k].node = n
Resolutions(lg, n, h) == {k \in 1 .. Len(lg) : lg[k].node = n /\ lg[k].h = h}

\* C20: every promise() pending on a Point when the Point fires is resolved
\* by that firing, with the direction of the seek; its handler is
\* unsubscribed during the firing and is not invoked again, also when
\* several promises or other handlers are attached to the same Point: none
\* is skipped because another one unsubscribed itself during the emission.
C20_PromiseResolves ==
    [][\A n \in PointNodes :
          /\ \A h \in Promises :
                (HasUser(subs[n], h) /\ FiredIn(log', n)) =>
                    /\ Cardinality(Resolutions(log', n, h)) = 1
                    /\ ~HasUser(subs'[n], h)
                    /\ last'.op = "seek" =>
                          \A k \in Resolutions(log', n, h) :
                              log'[k].dir = Toward(last'.from, last'.to)
          /\ \A h \in Promises :
                (~HasUser(subs[n], h) /\ last'.h # h) =>
                    Resolutions(log', n, h) = {}
          /\ (HasUser(subs[n], "a") /\ HasUser(subs'[n], "a") /\ FiredIn(log', n)) =>
                Resolutions(log', n, "a") # {}]_vars

\* Recording handlers a and b subscribed and unsubscribed between seeks on a
\* point, a range and a tapped range, and a promise on the point, whose
\* handler calls its own unsubscribe function when it is invoked.
UnsubscribeNodes == {SecondPoint, <<"R", 1>>, <<"D", 3>>}
NextUnsubscribe ==
    \/ \E to \in Positions : DoSeek(to)
    \/ \E n \in UnsubscribeNodes, h \in {"a", "b"} : DoSubscribe(n, h)
    \/ \E n \in UnsubscribeNodes, h \in {"a", "b"} : DoUnsubscribe(n, h)
    \/ DoSubscribe(SecondPoint, "p1")

SpecUnsubscribe == Init /\ [][NextUnsubscribe]_vars

\* The invocations of handler h by the emitter of node n among lg.
Received(lg, h, n) == {k \in 1 .. Len(lg) : lg[k].h = h /\ lg[k].node = n}
UnsubscribeHandlers == {"a", "b", "p1"}

\* A handler that is not subscribed when a seek begins is not invoked by it.
SilentOnceUnsubscribed ==
    \A n \in UnsubscribeNodes, h \in UnsubscribeHandlers :
        (last'.op = "seek" /\ ~HasUser(subs[n], h)) => Received(log', h, n) = {}
\* A handler that stays subscribed over a seek receives every emission any
\* handler of the same emitter receives.
OthersKeepReceiving ==
    \A n \in UnsubscribeNodes, h \in UnsubscribeHandlers, g \in UnsubscribeHandlers :
        (last'.op = "seek" /\ HasUser(subs[n], h) /\ HasUser(subs'[n], h)) =>
            Cardinality(Received(log', h, n)) >= Cardinality(Received(log', g, n))

\* C21: once the unsubscribe function of a subscription has been called, its
\* handler is not invoked by any later seek, and every other handler
\* subscribed to the same point, range or derived emitter keeps receiving
\* every emission.
C21_Unsubscribed == [][SilentOnceUnsubscribed /\ OthersKeepReceiving]_vars

\* The part of C21 about the handler that was unsubscribed.
UnsubscribedStaysSilent == [][SilentOnceUnsubscribed]_vars

\* The range of duration 0 and a derived emitter of it, beside an ordinary
\* range, with recording handlers a and b.
ZeroNodes == {ZeroRange, <<"D", 5>>}
NextZero ==
    \/ \E to \in Positions : DoSeek(to)
    \/ \E n \in ZeroNodes \cup {<<"R", 1>>}, h \in {"a", "b"} : DoSubscribe(n, h)
    \/ \E n \in {<<"D", 5>>, <<"R", 1>>}, h \in {"a", "b"} : DoUnsubscribe(n, h)

SpecZero == Init /\ [][NextZero]_vars

\* A subscription to one of the nodes ns throws, invokes no handler and
\* leaves the range registry as it was.
Rejected(ns) ==
    (last'.op = "subscribe" /\ last'.node \in ns) =>
        (thrown' /\ log' = <<>> /\ ranges' = ranges)
NoZeroRegistered == \A i \in 1 .. Len(ranges) : RangeDur(ranges[i]) # 0

\* C22: subscribing a handler to a range of duration 0, directly or through
\* a derived emitter of it, throws at subscribe time, never invokes the
\* handler and leaves the range registry unchanged; no registered range has
\* duration 0.
C22_ZeroRangeRejected == [][Rejected(ZeroNodes)]_vars /\ []NoZeroRegistered

\* The part of C22 about direct subscriptions and the registry.
DirectZeroRejected == [][Rejected({ZeroRange})]_vars /\ []NoZeroRegistered

\* Points and ranges created on a timeline that is sought, also beyond its
\* end, and that stops or wraps at its end; a point and a range of the
\* model have recording handlers.  The new points lie before, at and beyond
\* the end.
NewPositions == (EndOfObjects - 1) .. (EndOfObjects + 1)
NewDurations == -1 .. 1
NextCreate ==
    \/ \E to \in 0 .. (MaxPos + 2) : DoSeek(to)
    \/ \E n \in {SecondPoint, <<"R", 1>>} : DoSubscribe(n, "a")
    \/ \E n \in {SecondPoint, <<"R", 1>>} : DoUnsubscribe(n, "a")
    \/ \E position \in NewPositions : DoPoint(position)
    \/ \E start \in NewPositions, duration \in NewDurations : DoRange(start, duration)

SpecCreate == (InitWith("pause") \/ InitWith("wrap")) /\ [][NextCreate]_vars

\* C23: endPosition never decreases; after point(p) it is at least p, after
\* range(s, d) at least max(s, s + d); seeks, also beyond the end,
\* subscriptions and unsubscriptions leave it unchanged.
C23_EndPosition ==
    [][/\ endPosition' >= endPosition
       /\ last'.op = "point" => endPosition' >= last'.to
       /\ last'.op = "range" =>
             endPosition' >= Max(last'.to, last'.to + last'.node[2])
       /\ last'.op \in {"seek", "subscribe", "unsubscribe"} =>
             endPosition' = endPosition]_vars

\* A point was created beyond the end, on a timeline that had been sought
\* beyond its end with handlers subscribed.
C23_Witness ==
    /\ last.op = "point"
    /\ last.to = endPosition
    /\ last.to > EndOfObjects
    /\ currentTime > EndOfObjects
    /\ points # <<>>

\* A handler registered with Timeline.apply, beside recording handlers on a
\* point and a range, on a timeline that is sought, smooth-sought and played.
NextFrame ==
    \/ \E to \in Positions : DoSeek(to)
    \/ \E to \in SmoothTargets : \E d \in SmoothDurations(to) : DoSmoothSeek(to, d)
    \/ \E i \in 1 .. Len(seekers), delta \in Deltas : DoSeekerTick(i, delta)
    \/ \E n \in {FrameNode, SecondPoint, <<"R", 1>>} : DoSubscribe(n, "a")
    \/ \E n \in {FrameNode, SecondPoint, <<"R", 1>>} : DoUnsubscribe(n, "a")
    \/ DoPlay
    \/ DoPause
    \/ \E delta \in Deltas : DoTick(delta)

SpecFrame == Init /\ [][NextFrame]_vars

FrameCalls == {k \in 1 .. Len(log) : log[k].node = FrameNode}
\* The handler of Timeline.apply ran, and no point or range handler after it.
FrameAfterHandlers ==
    /\ FrameCalls # {}
    /\ log[Len(log)].node = FrameNode
\* The last operation sought the timeline: a seek call, a tick of play(), or
\* a step of a smooth seek that moved currentTime.
Sought(ops) ==
    /\ last.op \in ops
    /\ ~thrown
    /\ last.op = "stick" => currentTime # last.from
    /\ HasUser(subs[FrameNode], "a")

\* C24: a handler registered with Timeline.apply is invoked on every seek of
\* the timeline (a seek call, a tick of play(), each step by which a smooth
\* seek moves currentTime), after all point and range handlers of that seek.
C24_FrameOnEverySeek == Sought({"seek", "tick", "stick"}) => FrameAfterHandlers

\* The same for seek calls and ticks of play() only.
FrameOnSeekCalls == Sought({"seek", "tick"}) => FrameAfterHandlers

\* ------------------------------------------------------------------ C25
\* A recording handler on Timeline.progression, beside recording handlers
\* on a point and a range, on a non-wrapping timeline that is sought forward
\* and backward, also beyond its end, and whose end is extended.
NextProgress ==
    \/ \E to \in 0 .. (MaxPos + 1) : DoSeek(to)
    \/ \E n \in {ProgressNode, SecondPoint, <<"R", 1>>} : DoSubscribe(n, "a")
    \/ \E n \in {ProgressNode, SecondPoint, <<"R", 1>>} : DoUnsubscribe(n, "a")
    \/ DoPoint(EndOfObjects + 1)

SpecProgress == InitWith("pause") /\ [][NextProgress]_vars

\* The invocations of the progression handler during the last operation.
ProgressCalls == {k \in 1 .. Len(log) : log[k].node = ProgressNode}
LastProgress == log[CHOOSE k \in ProgressCalls : \A j \in ProgressCalls : j <= k]
\* num / den = currentTime / endPosition
IsCurrentProgress(v) == v.num * endPosition = currentTime * v.den
\* The last operation was an instantaneous seek in one of the directions
\* (1 forward, -1 backward) during which the progression handler ran.
SoughtWithProgress(dirs) ==
    /\ last.op = "seek"
    /\ ~thrown
    /\ endPosition > 0
    /\ ProgressCalls # {}
    /\ \/ 1 \in dirs /\ last.to > last.from
       \/ -1 \in dirs /\ last.to < last.from

\* C25: after every instantaneous seek, forward or backward, on a
\* non-wrapping timeline with endPosition > 0, the last value a subscriber
\* of Timeline.progression received equals currentTime / endPosition.
C25_ProgressionIsCurrent ==
    SoughtWithProgress({1, -1}) => IsCurrentProgress(LastProgress)

\* The same for forward seeks only.
ForwardProgressionIsCurrent ==
    SoughtWithProgress({1}) => IsCurrentProgress(LastProgress)

\* ------------------------------------------------------------------ C26
\* Smooth seeks through a range, by seek(range, duration) and by
\* play(range), on a timeline that is also sought and whose smooth seeks
\* advance, with recording handlers on a point and a range.
NextSeekRange ==
    \/ \E to \in Positions : DoSeek(to)
    \/ \E r \in RangeIds : DoSeekRange(r, RangeDur(r))
    \/ \E r \in RangeIds : DoPlayRange(r)
    \/ \E i \in 1 .. Len(seekers), delta \in Deltas : DoSeekerTick(i, delta)
    \/ \E n \in {SecondPoint, <<"R", 1>>} : DoSubscribe(n, "a")
    \/ \E n \in {SecondPoint, <<"R", 1>>} : DoUnsubscribe(n, "a")

SpecSeekRange == Init /\ [][NextSeekRange]_vars

\* The last operation returned after seeking to the start of its range and
\* starting one smooth seek, not yet advanced, from there to the range's end.
SmoothSeekThroughRange ==
    /\ ~thrown
    /\ smoothSeeker # 0
    /\ seekers[smoothSeeker].from = RangeStart(last.node[2])
    /\ seekers[smoothSeeker].to = RangeEnd(last.node[2])
    /\ seekers[smoothSeeker].time = 0
    /\ seekers[smoothSeeker].playing
    /\ ~seekers[smoothSeeker].resolved
    /\ currentTime = RangeStart(last.node[2])

\* C26: seek(range, duration) terminates: it seeks instantly to range.start,
\* starts one smooth seek whose target is range.end, and returns that smooth
\* seek's promise.
C26_SeekRangeTerminates == last.op = "rseek" => SmoothSeekThroughRange

\* The same for play(range).
PlayRangeSmoothSeeks == last.op = "rplay" => SmoothSeekThroughRange

\* ------------------------------------------------------------------ C27
\* snap() called on a range with valid and invalid step counts (0.5, 0, -2,
\* 1.5 and 1, 2, 3), the emitter it returns subscribed and unsubscribed,
\* beside a recording handler on the range itself, on a timeline that is
\* sought.
StepsInputs ==
    {Fraction(1, 2), Fraction(0, 1), Fraction(-2, 1), Fraction(3, 2),
     Fraction(1, 1), Fraction(2, 1), Fraction(3, 1)}
NextSnap ==
    \/ \E to \in Positions : DoSeek(to)
    \/ \E steps \in StepsInputs : DoSnap(steps)
    \/ DoSubscribeSnap
    \/ DoUnsubscribe(SnapParent, "s1")
    \/ DoSubscribe(SnapParent, "a")
    \/ DoUnsubscribe(SnapParent, "a")

SpecSnap == Init /\ [][NextSnap]_vars

\* The steps the last call of snap() was given.
StepsOf(op) == Fraction(op.to, op.node[2])
\* The values the subscriber of the snap emitter was handed in a log.
SnapValues(lg) == {k \in 1 .. Len(lg) : lg[k].node = SnapNode}
\* A quantised value: one of 0, 1/steps, ..., 1.
Quantised(e, steps) ==
    e.den = steps.num \div steps.den /\ e.num >= 0 /\ e.num <= e.den

\* C27: snap(steps) throws synchronously when steps is not a positive
\* integer, before any subscription or emission, and creates no subscription
\* on the parent; for a positive integer it does not throw at emission time
\* (every emission hands the subscriber a value quantised to steps).
C27_SnapValidates ==
    [][/\ (last'.op = "snap" /\ ~PositiveInteger(StepsOf(last'))) =>
             /\ thrown'
             /\ log' = <<>>
             /\ subs' = subs
             /\ ranges' = ranges
             /\ snapSteps' = snapSteps
       /\ (last'.op = "snap" /\ PositiveInteger(StepsOf(last'))) =>
             /\ ~thrown'
             /\ log' = <<>>
             /\ subs' = subs
             /\ snapSteps' = StepsOf(last')
       /\ (last'.op \in {"seek", "subscribe"} /\ SnapValues(log') # {}) =>
             /\ ~thrown'
             /\ \A k \in SnapValues(log') : Quantised(log'[k], snapSteps)]_vars

\* snap() threw for a bad step count while the emitter of an earlier call
\* was subscribed and had just been handed a value off the grid of the
\* parent's progress.
C27_Witness ==
    /\ last.op = "snap"
    /\ thrown
    /\ snapSteps = Fraction(3, 1)
    /\ HasUser(subs[SnapParent], "s1")
    /\ currentTime = RangeStart(SnapParent[2]) + 1

\* ------------------------------------------------------------------ C28
\* Smooth seeks that are interrupted by seeks, by other smooth seeks, by
\* play() and by play(range), while the timers of the nested timelines and
\* of play() fire; a point has a recording handler or one that throws.
NextSeekers ==
    \/ \E to \in Positions : DoSeek(to)
    \/ \E to \in SmoothTargets : \E d \in SmoothDurations(to) : DoSmoothSeek(to, d)
    \/ \E i \in 1 .. Len(seekers), delta \in Deltas : DoSeekerTick(i, delta)
    \/ \E h \in {"a", "throw"} : DoSubscribe(SecondPoint, h)
    \/ \E h \in {"a", "throw"} : DoUnsubscribe(SecondPoint, h)
    \/ DoPlay
    \/ DoPlayRange(1)
    \/ \E delta \in Deltas : DoTick(delta)

SpecSeekers == Init /\ [][NextSeekers]_vars

\* The nested timelines whose driver is running.
ActiveSeekers == {i \in 1 .. Len(seekers) : seekers[i].playing}

\* C28: a timeline has at most one active smooth seeker at any time, and a
\* smooth seek that has been interrupted (by a later seek or by play()) has
\* its driver stopped, so that no later tick of it changes the parent's
\* currentTime: the only nested timeline whose driver runs is the one the
\* timeline refers to, and every tick that moves the timeline is a tick of
\* that one.
C28_OneActiveSeeker ==
    /\ [](Cardinality(ActiveSeekers) <= 1)
    /\ [](\A i \in ActiveSeekers : i = smoothSeeker)
    /\ [][last'.op = "stick" => last'.node[2] = smoothSeeker]_vars

\* A smooth seek in progress was interrupted by another smooth seek: its
\* nested timeline is stopped and completed, the new one runs.
C28_Witness ==
    /\ last.op = "sseek"
    /\ last.active
    /\ Len(seekers) = 2
    /\ smoothSeeker = 2
    /\ ~seekers[1].playing
    /\ seekers[2].playing

\* ------------------------------------------------------------------ C29
\* Smooth seeks without an easer, driven by the timers of their nested
\* timelines, over recording handlers on the points; while a smooth seek is
\* in flight no other seek is made.
InFlight == smoothSeeker # 0 /\ ~seekers[smoothSeeker].resolved
NextResolve ==
    \/ ~InFlight /\ \E to \in Positions : DoSeek(to)
    \/ ~InFlight /\ \E to \in SmoothTargets : \E d \in SmoothDurations(to) :
                        DoSmoothSeek(to, d)
    \/ \E i \in 1 .. Len(seekers), delta \in Deltas : DoSeekerTick(i, delta)
    \/ \E n \in PointNodes : DoSubscribe(n, "a")
    \/ \E n \in PointNodes : DoUnsubscribe(n, "a")

\* The driver of a nested timeline keeps ticking, with positive elapsed time.
SpecResolve ==
    /\ Init
    /\ [][NextResolve]_vars
    /\ ([]<>(~SeekerPlaying) \/ []<><<last'.op = "stick">>_vars)

\* The promise of the smooth seek has been resolved, the timeline is at the
\* target, and it was there when the promise was resolved.
ResolvedAtTarget ==
    /\ smoothSeeker # 0
    /\ seekers[smoothSeeker].resolved
    /\ seekers[smoothSeeker].resolvedAt = seekers[smoothSeeker].to
    /\ currentTime = seekers[smoothSeeker].to

\* C29: while the driver keeps ticking with positive elapsed time, no
\* handler throws and no other seek is made, a smooth seek(to, duration)
\* without an easer eventually resolves its promise, and when the promise is
\* resolved currentTime = to: the final direct seek to the target happens
\* before the resolution.
C29_SmoothSeekResolves ==
    /\ [](\A i \in 1 .. Len(seekers) :
            seekers[i].resolved => seekers[i].resolvedAt = seekers[i].to)
    /\ (InFlight ~> ResolvedAtTarget)

\* The tick that completed a smooth seek: the promise was resolved during
\* it, after the timeline had moved the rest of the way to the target and
\* fired a point handler.
C29_Witness ==
    /\ last.op = "stick"
    /\ last.active
    /\ last.from # currentTime
    /\ ResolvedAtTarget
    /\ log # <<>>

\* ------------------------------------------------------------------ C30
\* Points with recording handlers, the second of them also with a handler
\* that throws, before or after its recording handler, and a range with a
\* recording handler, on a timeline that is sought forward and backward.
NextPointThrow ==
    \/ \E to \in Positions : DoSeek(to)
    \/ \E n \in PointNodes : DoSubscribe(n, "a")
    \/ \E n \in PointNodes : DoUnsubscribe(n, "a")
    \/ DoSubscribe(SecondPoint, "throw")
    \/ DoUnsubscribe(SecondPoint, "throw")
    \/ DoSubscribe(<<"R", 1>>, "a")
    \/ DoUnsubscribe(<<"R", 1>>, "a")

SpecPointThrow == Init /\ [][NextPointThrow]_vars

\* The invocations of throwing handlers of points during the last operation.
PointThrows ==
    {k \in 1 .. Len(log) : log[k].h = "throw" /\ log[k].node \in PointNodes}
\* The point whose handler threw first.
ThrowingPoint == log[CHOOSE k \in PointThrows : \A j \in PointThrows : k <= j].node[2]
\* Point q comes before point p on the way from f to t.
Before(q, p, f, t) ==
    IF t > f THEN PointPos(q) < PointPos(p) ELSE PointPos(q) > PointPos(p)
\* Every handler of point q was invoked during the last operation.
AllHandlersRan(q) ==
    \A i \in 1 .. Len(subs[q]) :
        \E k \in 1 .. Len(log) : log[k].node = q /\ log[k].h = subs[q][i].h
\* The last operation was a seek during which the handler of a point threw.
PointHandlerThrew == last.op = "seek" /\ thrown /\ PointThrows # {}

\* What holds after the handler of ThrowingPoint threw: the points crossed
\* before it have fired, no point after it and no handler after the throw
\* has been invoked, and currentTime is the position of ThrowingPoint.
StoppedAtThrowingPoint ==
    /\ \A q \in PointIds :
          (Crosses(q, last.from, last.to)
           /\ Before(q, ThrowingPoint, last.from, last.to)) =>
              AllHandlersRan(<<"P", q>>)
    /\ \A k \in 1 .. Len(log) :
          log[k].node \in PointNodes =>
              ~Before(ThrowingPoint, log[k].node[2], last.from, last.to)
    /\ log[Len(log)].h = "throw"
    /\ log[Len(log)].node = <<"P", ThrowingPoint>>
    /\ Cardinality(PointThrows) = 1
    /\ currentTime = PointPos(ThrowingPoint)

\* C30: if the handler of point p throws during a seek from f to t, then
\* afterwards every point crossed before p has fired, no point after p (in
\* travel order) and no remaining handler has been invoked, and currentTime
\* is neither rolled back to f nor set to t: it equals p.position.
C30_FailStop == PointHandlerThrew => StoppedAtThrowingPoint

\* The registry holds the points in the order in which the last seek
\* travelled.
RegistryInTravelOrder ==
    \A i, j \in 1 .. Len(points) :
        i < j => Before(points[i], points[j], last.from, last.to)

\* The same for seeks over a registry that is in travel order.
FailStopInTravelOrder ==
    (PointHandlerThrew /\ RegistryInTravelOrder) => StoppedAtThrowingPoint

\* A seek forward over all points: the first fired, the handler of the
\* second threw ahead of a recording handler of the same point, and the
\* third, which has a handler, lies between the second and the target.
\* (Reached with the registry in travel order.)
StoppedAtSecondPoint ==
    /\ PointHandlerThrew
    /\ ThrowingPoint = 2
    /\ last.from = 0
    /\ last.to = MaxPos
    /\ \E k \in 1 .. Len(log) : log[k].node = <<"P", 1>> /\ log[k].h = "a"
    /\ Len(subs[<<"P", 2>>]) = 2
    /\ subs[<<"P", 2>>][1].h = "throw"
    /\ subs[<<"P", NPoints>>] # <<>>
    /\ currentTime = PointPos(2)

\* ------------------------------------------------------------------ C31
\* The invocations of range handlers during the last operation.
RangeCalls == {k \in 1 .. Len(log) : log[k].node \in RangeNodes}
\* Two invocations belong to one settle step (one call of seekRanges): the
\* playhead had not moved between them.
SameSettleStep(k, j) == log[k].t = log[j].t
\* The range emissions of every settle step came in ascending order of end
\* position.
AscendingEnds ==
    \A k, j \in RangeCalls :
        (k < j /\ SameSettleStep(k, j)) =>
            RangeEnd(log[k].node[2]) <= RangeEnd(log[j].node[2])

\* C31: after any sequence of range subscriptions and seeks, whenever a
\* forward settle step touches several subscribed ranges, they receive their
\* emissions in ascending order of end position, also the ranges that were
\* subscribed after the last change of seek direction.
C31_RangesInEndOrder ==
    (CompletedSeek /\ last.to > last.from) => AscendingEnds

\* The range registry is in ascending order of end position.
RegistryInEndOrder ==
    \A i, j \in 1 .. Len(ranges) :
        i < j => RangeEnd(ranges[i]) <= RangeEnd(ranges[j])

\* The same for forward seeks over a registry that is in end order.
SortedRangesInEndOrder ==
    (CompletedSeek /\ last.to > last.from /\ RegistryInEndOrder) => AscendingEnds

\* ------------------------------------------------------------------ C32
\* Ranges with recording handlers, and a point with one, on a timeline that
\* wraps at its end (wrap anchor 0) and is sought up to MaxLaps laps beyond
\* the end.
WrapRangePositions == 0 .. (MaxLaps * EndOfObjects + 1)
NextWrapRanges ==
    \/ \E to \in WrapRangePositions : DoSeek(to)
    \/ \E n \in RangeNodes \cup {SecondPoint} : DoSubscribe(n, "a")
    \/ \E n \in RangeNodes \cup {SecondPoint} : DoUnsubscribe(n, "a")

SpecWrapRanges == InitWith("wrap") /\ [][NextWrapRanges]_vars

\* The invocations of the recording handler of node n in a log.
CallsOf(lg, n) == {k \in 1 .. Len(lg) : lg[k].node = n /\ lg[k].h = "a"}
LastCallOf(lg, n) == lg[CHOOSE k \in CallsOf(lg, n) : \A j \in CallsOf(lg, n) : j <= k]
\* The positions the ranges may be at when the timeline is at position t:
\* t itself before the end, t re-mapped into the loop beyond it, and either
\* of the two at the end.
Wrapped(t, action, end) ==
    IF action.type # "wrap" \/ t < end THEN {t}
    ELSE IF t = end THEN {t, getWrappedPosition(t, action.at, end - action.at)}
    ELSE {getWrappedPosition(t, action.at, end - action.at)}
\* The value v is the progress of range r at position w.
IsProgressAt(v, r, w) == v.num * RangeDur(r) = Progress(w, RangeStart(r), RangeDur(r)).num * v.den
\* The value the recording handler of range r received last, in the
\* operation just made or else in the one before it, is the progress of r
\* at the position the timeline has now.
LastValueIsCurrent(r) ==
    LET n == <<"R", r>>
    IN  \E w \in Wrapped(currentTime', endAction, endPosition) :
            IF CallsOf(log', n) # {} THEN IsProgressAt(LastCallOf(log', n), r, w)
            ELSE CallsOf(log, n) # {} => IsProgressAt(LastCallOf(log, n), r, w)
\* The step is a seek that returned, with the handler of range r subscribed.
SeekWithRange(r) ==
    /\ last'.op = "seek"
    /\ ~thrown'
    /\ HasUser(subs[<<"R", r>>], "a")

\* C32: on a timeline with endAction Wrap, after any completed seek, every
\* range handler that has received at least one value last received
\* clamp((w - start) / duration, 0, 1), where w is the final position
\* re-mapped into the loop; in particular a subscribed range that the wrapped
\* trajectory passes over entirely during the seek receives an emission in
\* that seek.
C32_WrapRangesCurrent ==
    [][\A r \in RangeIds : SeekWithRange(r) => LastValueIsCurrent(r)]_vars

\* The part of C32 about the ranges a seek does emit to: the last value is
\* the progress at the final position.
EmittedRangesCurrent ==
    [][\A r \in RangeIds :
          (SeekWithRange(r) /\ CallsOf(log', <<"R", r>>) # {}) =>
              \E w \in Wrapped(currentTime', endAction, endPosition) :
                  IsProgressAt(LastCallOf(log', <<"R", r>>), r, w)]_vars

\* ------------------------------------------------------------------ C33
\* new Timeline(false, {wrapAt: WrapAnchor}): a timeline that wraps to an
\* anchor after its start, with recording handlers on the points, sought up
\* to MaxLaps laps beyond the end.
WrapAnchor == 1
NextWrapAnchor ==
    \/ \E to \in WrapPositions : DoSeek(to)
    \/ \E n \in PointNodes : DoSubscribe(n, "a")
    \/ \E n \in PointNodes : DoUnsubscribe(n, "a")

SpecWrapAnchor == InitPoints("wrap", WrapAnchor) /\ [][NextWrapAnchor]_vars

\* How often the path f -> end -> anchor -> ... reaches position pos when it
\* runs x beyond the end: once on the way to the end, and once for every
\* lap of the excess that gets as far as pos.
ReachedOnPath(pos, f, x) ==
    (IF f < pos /\ pos <= endPosition THEN 1 ELSE 0)
    + (IF pos > endAction.at /\ x >= pos - endAction.at
       THEN (x - (pos - endAction.at)) \div (endPosition - endAction.at) + 1
       ELSE 0)
ForwardHits(p) == {k \in Hits(<<"P", p>>, "a") : log[k].dir = 1}
\* What a forward seek beyond the end does to the subscribed points: those
\* between its origin and the end fire at least once, and none of the loop
\* fires more often than the path reaches it.
OnlyExcessRemapped ==
    /\ \A p \in PointIds :
          (HasUser(subs[<<"P", p>>], "a")
           /\ last.from < PointPos(p) /\ PointPos(p) <= endPosition) =>
              ForwardHits(p) # {}
    /\ \A p \in PointIds :
          (endAction.at < PointPos(p) /\ PointPos(p) <= endPosition) =>
              Cardinality(Hits(<<"P", p>>, "a"))
                  <= ReachedOnPath(PointPos(p), last.from, last.to - endPosition)

\* C33: on a timeline with endAction Wrap and wrap anchor a > 0, only the
\* excess beyond endPosition is re-mapped: a forward seek from a position
\* f < a to a position t > endPosition fires every subscribed point p with
\* f < p <= endPosition at least once with direction +1, and fires no point
\* in (a, endPosition] more often than it is reached on the path
\* f -> endPosition -> a -> ... -> wrapped(t).
C33_OnlyExcessRemapped ==
    (CompletedSeek /\ last.from < endAction.at /\ last.to > endPosition) =>
        OnlyExcessRemapped

\* The same for forward seeks that start within the loop.
ExcessRemappedFromLoop ==
    (CompletedSeek /\ last.from >= endAction.at /\ last.from <= endPosition
     /\ last.to > endPosition) =>
        OnlyExcessRemapped

\* ------------------------------------------------------------------ C34
\* The unsubscribe function of a createListenable subscription, called
\* again after it has removed its entry: the entry {fn} it looks for was
\* created by its own subscribe call and is in the array no more, whatever
\* has been subscribed since, so indexOf gives -1.  Subscribing and
\* unsubscribing a handler on an untouched timeline leaves nothing behind,
\* so the program may hold such a function in every state.
DoUnsubscribeAgain(n, h) ==
    LET m == Run(Machine, <<FRemoveListener(n, "removed", h, 0)>>)
    IN  /\ Commit(m)
        /\ last' = Op("again", currentTime, n, h)

\* The first call of the unsubscribe function createTapListener's
\* tapOnListen returned for handler h.
DoTapUnsubscribe(h) ==
    LET m == Run(Machine, <<FTapUnsubscribe(h)>>)
    IN  /\ HoldsUnsubscribe(subs[TapListenerNode], h)
        /\ Commit(m)
        /\ last' = Op("unsubscribe", currentTime, TapListenerNode, h)

\* A later call of that same function.
DoTapUnsubscribeAgain(h) ==
    LET m == Run(Machine, <<FTapUnsubscribe(h)>>)
    IN  /\ Commit(m)
        /\ last' = Op("again", currentTime, TapListenerNode, h)

ListenableNodes == {<<"R", 1>>, <<"D", 3>>}

NextAgain ==
    \/ \E to \in {0, RangeEnd(1)} : DoSeek(to)
    \/ \E n \in ListenableNodes \cup {TapListenerNode}, h \in {"a", "b"} :
          DoSubscribe(n, h)
    \/ \E n \in ListenableNodes, h \in {"a", "b"} : DoUnsubscribe(n, h)
    \/ \E n \in ListenableNodes, h \in {"a", "b"} : DoUnsubscribeAgain(n, h)
    \/ \E h \in {"a", "b"} : DoTapUnsubscribe(h)
    \/ \E h \in {"a", "b"} : DoTapUnsubscribeAgain(h)

SpecAgain == InitWith("pause") /\ [][NextAgain]_vars

\* The second call changed nothing: every handler array and both
\* registries are what they were.
NothingRemoved ==
    /\ subs' = subs
    /\ points' = points
    /\ ranges' = ranges

\* C34: calling an unsubscribe function a second time either throws or does
\* nothing; the subscribed handlers and the timeline's registries are the
\* same as before the call, so no other subscriber is removed or silenced.
C34_SecondCallRemovesNothing ==
    [][last'.op = "again" => NothingRemoved]_vars

\* The same for the unsubscribe functions createListenable returns, on a
\* range and on an emitter derived from it: the second call throws.
ListenableSecondCallThrows ==
    [][(last'.op = "again" /\ last'.node \in ListenableNodes)
         => (thrown' /\ NothingRemoved)]_vars

\* A second call was made while another handler was subscribed to the same
\* emitter.
SecondCallBesideOther ==
    /\ last.op = "again"
    /\ last.h = "a"
    /\ HasUser(subs[last.node], "b")

\* ------------------------------------------------------------------ C35
\* Over one operation the handler of range r stays current: when it was
\* called, the last value it was given is the progress of r at the position
\* the timeline has afterwards; when it was not called and stays
\* subscribed, the progress of r at the new position is the progress at the
\* old one.
StaysCurrent(r) ==
    LET n == <<"R", r>>
    IN  IF CallsOf(log', n) # {}
        THEN IsProgressAt(LastCallOf(log', n), r, currentTime')
        ELSE (HasUser(subs[n], "a") /\ HasUser(subs'[n], "a"))
                => Progress(currentTime', RangeStart(r), RangeDur(r))
                     = Progress(currentTime, RangeStart(r), RangeDur(r))

\* C35: on a non-wrapping timeline, after any sequence of instantaneous
\* seeks, subscriptions and unsubscriptions, every subscribed range handler
\* that has received a value last received
\* clamp((currentTime - start) / duration, 0, 1), also when the latest seek
\* did not touch its range: every operation gives the handler the current
\* progress last, or leaves the progress of its range as it was.
C35_RangesNeverStale ==
    [][\A r \in RangeIds : StaysCurrent(r)]_vars

\* A seek that moved the timeline called the handler of the first range and
\* left the handler of the second range, also subscribed, uncalled.
C35_Witness ==
    /\ CompletedSeek
    /\ currentTime # last.from
    /\ HasUser(subs[<<"R", 1>>], "a")
    /\ HasUser(subs[<<"R", NRanges>>], "a")
    /\ CallsOf(log, <<"R", 1>>) # {}
    /\ CallsOf(log, <<"R", NRanges>>) = {}
    /\ NRanges > 1

\* ------------------------------------------------------------------ C36
\* The step subscribes a handler to a point.
SubscribesToPoint == last'.op = "subscribe" /\ last'.node \in PointNodes

\* C36: subscribing a handler to a point emits nothing: the subscribe call
\* invokes neither the new handler nor a handler already subscribed to the
\* point, wherever the timeline is.
C36_PointSubscribeIsSilent ==
    [][SubscribesToPoint => log' = <<>>]_vars

\* What the subscribe call does invoke: never the new handler; the handlers
\* already subscribed to the point, once each with direction +1, and only
\* when the timeline is at the point's position.
PointSubscribeEmitsToOthers ==
    [][SubscribesToPoint =>
         /\ \A k \in 1 .. Len(log') :
               /\ log'[k].node = last'.node
               /\ log'[k].h # last'.h
               /\ log'[k].dir = 1
               /\ HasUser(subs[last'.node], log'[k].h)
               /\ currentTime = PointPos(last'.node[2])
         /\ currentTime # PointPos(last'.node[2]) => log' = <<>>]_vars

\* ------------------------------------------------------------------ C37
\* The step is a tick of the play() driver that returned, made while the
\* promise of a smooth seek was pending.
TickDuringSmoothSeek == last'.op = "tick" /\ last'.active /\ ~thrown'

\* C37: a tick of the play() driver made while a smooth seek is in progress
\* completes the smooth seek first: its nested driver is stopped, the
\* timeline seeks directly to the smooth seek's target before any other
\* move, and the promise is resolved with the timeline at that target; only
\* then is the tick's advance applied, from the position the timeline had
\* when the timer fired, and afterwards the timeline refers to no smooth
\* seeker and no nested driver runs.
C37_TickInterrupts ==
    [][TickDuringSmoothSeek =>
         LET i == AliveIndex(smoothSeeker)
         IN  /\ ~seekers'[i].playing
             /\ seekers'[i].resolved
             /\ seekers'[i].resolvedAt = last'.target
             /\ last'.target # last'.from =>
                   (Len(path') >= 1 /\ path'[1] = last'.target)
             /\ currentTime' = Min(last'.to, endPosition)
             /\ smoothSeeker' = 0
             /\ \A j \in 1 .. Len(seekers') : ~seekers'[j].playing]_vars

\* A tick interrupted a smooth seek away from its target and moved the
\* timeline on.
C37_Witness ==
    /\ last.op = "tick"
    /\ last.active
    /\ ~thrown
    /\ last.target # last.from
    /\ last.target # currentTime
    /\ currentTime # last.from
    /\ smoothSeeker = 0

\* ------------------------------------------------------------------ C38
\* Timelines with endAction "restart" (anchor 0, 1 or 2), played and
\* sought, also beyond the end, with recording handlers on the point at the end, on
\* a point inside the loop and on the first range, which lies inside the
\* loop.
LoopAnchors == {0, 1, 2}
LoopNodes == {<<"P", NPoints>>, SecondPoint, <<"R", 1>>}

NextLoop ==
    \/ \E to \in {0, MaxPos} : DoSeek(to)
    \/ \E n \in LoopNodes : DoSubscribe(n, "a")
    \/ \E n \in LoopNodes : DoUnsubscribe(n, "a")
    \/ DoPlay
    \/ \E delta \in TickDeltas : DoTick(delta)

SpecLoop == (\E at \in LoopAnchors : InitPoints("restart", at)) /\ [][NextLoop]_vars

\* The advance by delta from the present position goes around the loop:
\* it passes the end position.
LoopsAround(delta) ==
    /\ endAction.type = "restart"
    /\ LoopLength > 0
    /\ currentTime + delta > endPosition
\* How often it goes around, and where it ends.
Laps(delta) == 1 + ((currentTime + delta - endPosition) \div LoopLength)
Remainder(delta) == (currentTime + delta - endPosition) % LoopLength
\* The same advance as ordinary seeks: to the end and back to the anchor
\* once per lap, and then on to the final position.
LapSeeks(delta) ==
    LET lap == <<FSeek(endPosition), FSeek(endAction.at)>>
        laps[k \in 0 .. Laps(delta)] == IF k = 0 THEN <<>> ELSE laps[k - 1] \o lap
    IN  laps[Laps(delta)]
        \o (IF Remainder(delta) > 0
            THEN <<FSeek(endAction.at + Remainder(delta))>> ELSE <<>>)
\* What one ordinary seek from the end position to the anchor invokes.
WayBack ==
    Run([Machine EXCEPT !.currentTime = endPosition], <<FSeek(endAction.at)>>).log
Intersects(r, lo, hi) == RangeStart(r) <= hi /\ RangeEnd(r) >= lo
\* The directions handler a of point p was given, in order.
Directions(lg, p) ==
    LET at == SelectSeq([k \in 1 .. Len(lg) |-> k],
                        LAMBDA k : lg[k].node = <<"P", p>>)
    IN  [j \in 1 .. Len(at) |-> lg[at[j]].dir]
Alternates(d) == \A j \in 1 .. (Len(d) - 1) : d[j] # d[j + 1]

\* C38: under endAction restart the way from endPosition back to the
\* restart anchor is an ordinary backward seek.  An advance that goes
\* around the loop invokes what the ordinary seeks to the end and back to
\* the anchor invoke, lap after lap; on every way back each subscribed
\* point p with anchor < p <= endPosition receives one event of direction
\* -1 and each subscribed range that intersects [anchor, endPosition]
\* receives an emission; within the advance the directions a point is given
\* alternate.
C38_RestartSeeksBack ==
    [][\A delta \in TickDeltas :
          (last'.op = "tick" /\ last'.to = currentTime + delta /\ ~thrown'
             /\ LoopsAround(delta)) =>
          LET back == WayBack
          IN
            /\ log' = Run(Machine, LapSeeks(delta)).log
            /\ \A p \in PointIds :
                  (Listened(p) /\ endAction.at < PointPos(p)) =>
                     /\ Cardinality({k \in 1 .. Len(back) :
                            back[k].node = <<"P", p>> /\ back[k].dir = -1}) = 1
                     /\ Cardinality({k \in 1 .. Len(log') :
                            log'[k].node = <<"P", p>> /\ log'[k].dir = -1})
                          = Laps(delta)
                     /\ Alternates(Directions(log', p))
            /\ \A r \in RangeIds :
                  (HasUser(subs[<<"R", r>>], "a")
                     /\ Intersects(r, endAction.at, endPosition)) =>
                     /\ \E k \in 1 .. Len(back) : back[k].node = <<"R", r>>
                     /\ Cardinality(CallsOf(log', <<"R", r>>)) >= Laps(delta)]_vars

\* An advance went around the loop twice from inside it, with handlers on
\* the point at the end, on a point inside the loop and on the range.
C38_Witness ==
    /\ last.op = "tick" /\ ~thrown
    /\ endAction.type = "restart"
    /\ endAction.at > 0
    /\ last.from > endAction.at
    /\ last.to >= endPosition + LoopLength + 1
    /\ Listened(NPoints)
    /\ Listened(Min(2, NPoints))
    /\ HasUser(subs[<<"R", 1>>], "a")
    /\ Fired(NPoints, -1) = 2

\* ------------------------------------------------------------------ C39
\* The last operation was a timer tick that returned, on a restart timeline
\* with a loop of positive length.
RestartTick ==
    /\ last.op = "tick" /\ ~thrown
    /\ endAction.type = "restart"
    /\ LoopLength > 0
\* The laps of that tick, and how far past the anchor it ends.
LapsMade == 1 + ((last.to - endPosition) \div LoopLength)
PastAnchor == (last.to - endPosition) % LoopLength

\* C39 as stated: under endAction restart with loop length > 0 an advance
\* by delta > 0 ends after finitely many seeks from every starting
\* position, also from beyond endPosition, and leaves currentTime within
\* [restartAnchor, endPosition].
C39_RestartStaysInLoop ==
    RestartTick =>
        /\ Len(path) <= 2 * Max(LapsMade, 0) + 1
        /\ endAction.at <= currentTime
        /\ currentTime <= endPosition

\* C39 amended: such an advance ends after at most two seeks per lap and
\* one more.  When it does not pass endPosition it is the one seek to
\* currentTime + delta, which is below the restart anchor when the advance
\* starts and ends before it; when it passes endPosition, from inside the
\* timeline or from beyond its end, it leaves currentTime in
\* [restartAnchor, endPosition), at the anchor plus what is left of delta
\* after the way to the end and the whole laps.
C39_RestartEndsInLoopPastEnd ==
    RestartTick =>
        IF last.to <= endPosition
        THEN /\ currentTime = last.to
             /\ path = <<last.to>>
        ELSE /\ currentTime = endAction.at + PastAnchor
             /\ endAction.at <= currentTime
             /\ currentTime < endPosition
             /\ Len(path) <= 2 * LapsMade + 1
             /\ Len(path) >= 2 * LapsMade - 1

\* An advance from beyond the end went around the loop and ended inside
\* it, past the anchor.
C39_Witness ==
    /\ RestartTick
    /\ last.from > endPosition
    /\ endAction.at > 0
    /\ currentTime > endAction.at
    /\ Len(path) = 2 * LapsMade + 1

\* ------------------------------------------------------------------ C40
\* A timeline with endAction "pause" whose last point is at the end
\* position: recording handlers on that point and on the first range,
\* play(), the ticks of its timer, and seeks made while no timer runs.
StopNodes == {<<"P", NPoints>>, <<"R", 1>>}
NextStop ==
    \/ \E to \in Positions : ~interval /\ DoSeek(to)
    \/ \E n \in StopNodes, h \in {"a", "b"} : DoSubscribe(n, h)
    \/ \E n \in StopNodes, h \in {"a", "b"} : DoUnsubscribe(n, h)
    \/ DoPlay
    \/ \E delta \in Deltas : DoTick(delta)

\* The timer of play() keeps firing, with positive elapsed time, for as long
\* as it is scheduled.
SpecStop ==
    /\ InitPoints("pause", 0)
    /\ [][NextStop]_vars
    /\ ([]<>(~interval) \/ []<><<last'.op = "tick">>_vars)

Stopped == ~playing /\ ~interval /\ currentTime = endPosition

\* A playing timeline eventually stops at the end position.
PlayingStops == playing ~> Stopped

\* C40: a playing timeline with endAction pause, whose handlers do not
\* throw, eventually stops under fair ticks of positive elapsed time:
\* eventually isPlaying is false and currentTime = endPosition; and while it
\* is stopped there no point or range handler is invoked by anything but an
\* explicit seek or play().
C40_StopsAndStaysSilent ==
    /\ PlayingStops
    /\ [][(Stopped /\ last'.op \notin {"seek", "play"}) => log' = <<>>]_vars

\* While the timeline is not playing, the timer of play() does not fire, and
\* a handler is invoked without a seek only by a subscribe call: handlers of
\* a point the timeline is at when another handler is subscribed to it, and
\* the new handler of a range that contains the current time.
StoppedEmitsOnlyOnSubscribe ==
    [][~playing =>
         /\ last'.op # "tick"
         /\ (last'.op \notin {"seek", "play", "subscribe"}) => log' = <<>>
         /\ (last'.op = "subscribe" /\ log' # <<>>) =>
               IF last'.node \in PointNodes
               THEN currentTime = PointPos(last'.node[2])
               ELSE /\ contains(last'.node[2], currentTime)
                    /\ \A k \in 1 .. Len(log') : log'[k].h = last'.h]_vars

====
